---- MODULE Spec2Model ----
(***************************************************************************)
(* A state-machine model of the corona-sim simulation engine:              *)
(*   - exercise_2.py   : the basic, self-contained simulation script       *)
(*   - exercise_3d.py  : the phased simulation script and its health and   *)
(*                       contact functions                                 *)
(*   - simulate_v2.py  : run_simulation, driven through injected hooks     *)
(* Random draws (random.randint, random.random) are nondeterministic       *)
(* choices.  Probabilities are carried in hundredths (0.03 is 3).          *)
(***************************************************************************)
EXTENDS Integers, Sequences, FiniteSets, TLC

VARIABLES
    prog,               \* which program runs: "exercise_2", "exercise_3d", "simulate_v2"
    pc,                 \* position in the program
    day,                \* the loop variable `day`
    people,             \* the list of living individuals: records [id, state, days]
    today_population,   \* exercise_2: current_population; sim_state[DAILY_POPULATION]
    it,                 \* the index held by the running loop / list iterator
    today_cases,        \* exercise_2: new_cases; sim_state[DAILY_CASES]
    today_recoveries,   \* exercise_2: new_recoveries; sim_state[DAILY_RECOVERIES]
    today_deaths,       \* exercise_2: new_deaths; sim_state[DAILY_DEATHS]
    today_confirmed_cases,       \* sim_state[DAILY_CONFIRMED_CASES], in hundredths
    today_confirmed_recoveries,  \* sim_state[DAILY_CONFIRMED_RECOVERIES], in hundredths
    today_confirmed_deaths,      \* sim_state[DAILY_CONFIRMED_DEATHS], in hundredths
    today_hospitalizations,      \* sim_state[DAILY_HOSPITALIZATIONS]
    today_ICU,                   \* sim_state[DAILY_ICU]
    params,             \* the CURRENT_* parameters of the running phase
    phases,             \* PHASES and CURRENT_PHASE: the ordered phases, the current one,
                        \* the recorded start days, the conditions reported so far
    hooks,              \* the callables of sim_state that may be None
    series,             \* the tracked series, by name: name -> sequence (index 1 is day 0)
    maxima,             \* the recorded maxima
    transitions,        \* history: id -> number of health-state changes in the current day
    evaluations         \* history: id -> number of health evaluations in the current day

\* The counters and parameters only exercise_3d and run_simulation use.
phased == <<today_confirmed_cases, today_confirmed_recoveries, today_confirmed_deaths,
            today_hospitalizations, today_ICU, params, phases, hooks>>

vars == <<prog, pc, day, people, today_population, it, today_cases,
          today_recoveries, today_deaths, phased, series, maxima, transitions, evaluations>>

(***************************************************************************)
(* Bounds of the model (the scripts run 10000 people for 200 days).        *)
(***************************************************************************)
MaxPopulation == 2
MaxInitialInfection == 2
MaxSimulationDays == 15
MaxDailyContacts == 4
\* The population of the runs that are followed through one contact pass only.
MaxContactPopulation == 3

(***************************************************************************)
(* Configuration                                                           *)
(***************************************************************************)
POPULATION == MaxPopulation
INITIAL_INFECTION == MaxInitialInfection
SIMULATION_DAYS == MaxSimulationDays
\* 'transmission probability': 0.03, in hundredths
TRANSMISSION_PROBABILITY == 3

\* The transmission probabilities a run may be configured with, in
\* hundredths: the script's value and 0.
TransmissionProbabilities ==
    {0, TRANSMISSION_PROBABILITY}

\* simulation_state = SIMULATION_STATES['normal']
simulation_state ==
    [daily_contacts |-> params.daily_contacts,
     transmission_probability |-> params.transmission_probability]

daily_contacts == simulation_state.daily_contacts
transmission_probability == simulation_state.transmission_probability

INFECTED_DAYS == 2
CONTAGIOUS_DAYS == 4
RECOVERING_DAYS == 10
\* 'death rate': 0.03 of the contagious state, in hundredths
CONTAGIOUS_DEATH_RATE == 3

\* The death rates the contagious state may be configured with, in
\* hundredths: the table's value and 1.0.
DeathRates ==
    {CONTAGIOUS_DEATH_RATE, 100}

\* The script has no phases.
\* events=None: no event is configured.
NoEvents == << >>

\* One event: two contacts fewer per day on days 1 and 2.
QuietDays ==
    <<[first_day |-> 1, last_day |-> 2, delta |-> -2]>>

\* The hooks of a run that has its update hook and no events.
CallableHooks ==
    [daily_update_state |-> "callable", daily_event_evaluation |-> "None",
     events |-> NoEvents]

\* The sum of the modifiers of the events whose day range includes day d.
RECURSIVE ActiveDelta(_, _, _)
ActiveDelta(events, d, n) ==
    IF n > Len(events)
    THEN 0
    ELSE (IF events[n].first_day <= d /\ d <= events[n].last_day
          THEN events[n].delta ELSE 0)
         + ActiveDelta(events, d, n + 1)

\* The effective daily contacts of day d: the baseline of the phase composed
\* with the active events.
EffectiveContacts(baseline, events, d) ==
    baseline + ActiveDelta(events, d, 1)

\* ss[DAILY_EVENT_EVALUATION](ss, day): the current daily contacts become
\* the effective ones of the day.
daily_event_evaluation(current, baseline, events, d) ==
    [current EXCEPT !.daily_contacts = EffectiveContacts(baseline, events, d)]

NoPhases ==
    [list |-> << >>, current |-> 0, start_days |-> << >>, reported |-> 0]

\* The configurations of the script: SIMULATION_STATES['normal'] and the
\* death rate of the contagious state.
Ex2Configurations ==
    [daily_contacts : {MaxDailyContacts},
     transmission_probability : TransmissionProbabilities,
     death_rate : DeathRates]

\* Mutant: the table sends an infected individual straight to recovering.
HEALTH_STATES_InfectedSkipsContagious ==
    [well       |-> [days_at_state |-> -1, can_be_infected |-> TRUE,
                     next_state |-> "infected", death_rate |-> 0],
     infected   |-> [days_at_state |-> INFECTED_DAYS, can_be_infected |-> FALSE,
                     next_state |-> "recovering", death_rate |-> 0],
     contagious |-> [days_at_state |-> CONTAGIOUS_DAYS, can_be_infected |-> FALSE,
                     next_state |-> "recovering", death_rate |-> params.death_rate],
     recovering |-> [days_at_state |-> RECOVERING_DAYS, can_be_infected |-> FALSE,
                     next_state |-> "immune", death_rate |-> 0],
     immune     |-> [days_at_state |-> -1, can_be_infected |-> FALSE,
                     next_state |-> "well", death_rate |-> 0],
     dead       |-> [days_at_state |-> -1, can_be_infected |-> FALSE]]

\* Mutant: an infected individual can be infected again.
HEALTH_STATES_InfectedCanBeInfected ==
    [well       |-> [days_at_state |-> -1, can_be_infected |-> TRUE,
                     next_state |-> "infected", death_rate |-> 0],
     infected   |-> [days_at_state |-> INFECTED_DAYS, can_be_infected |-> TRUE,
                     next_state |-> "contagious", death_rate |-> 0],
     contagious |-> [days_at_state |-> CONTAGIOUS_DAYS, can_be_infected |-> FALSE,
                     next_state |-> "recovering", death_rate |-> params.death_rate],
     recovering |-> [days_at_state |-> RECOVERING_DAYS, can_be_infected |-> FALSE,
                     next_state |-> "immune", death_rate |-> 0],
     immune     |-> [days_at_state |-> -1, can_be_infected |-> FALSE,
                     next_state |-> "well", death_rate |-> 0],
     dead       |-> [days_at_state |-> -1, can_be_infected |-> FALSE]]

\* Mutant: the table flags the contagious state as one that can be infected.
HEALTH_STATES_ContagiousCanBeInfected ==
    [well       |-> [days_at_state |-> -1, can_be_infected |-> TRUE,
                     next_state |-> "infected", death_rate |-> 0],
     infected   |-> [days_at_state |-> INFECTED_DAYS, can_be_infected |-> FALSE,
                     next_state |-> "contagious", death_rate |-> 0],
     contagious |-> [days_at_state |-> CONTAGIOUS_DAYS, can_be_infected |-> TRUE,
                     next_state |-> "recovering", death_rate |-> params.death_rate],
     recovering |-> [days_at_state |-> RECOVERING_DAYS, can_be_infected |-> FALSE,
                     next_state |-> "immune", death_rate |-> 0],
     immune     |-> [days_at_state |-> -1, can_be_infected |-> FALSE,
                     next_state |-> "well", death_rate |-> 0],
     dead       |-> [days_at_state |-> -1, can_be_infected |-> FALSE]]

HEALTH_STATES ==
    [well       |-> [days_at_state |-> -1, can_be_infected |-> TRUE,
                     next_state |-> "infected", death_rate |-> 0],
     infected   |-> [days_at_state |-> INFECTED_DAYS, can_be_infected |-> FALSE,
                     next_state |-> "contagious", death_rate |-> 0],
     contagious |-> [days_at_state |-> CONTAGIOUS_DAYS, can_be_infected |-> FALSE,
                     next_state |-> "recovering", death_rate |-> params.death_rate],
     recovering |-> [days_at_state |-> RECOVERING_DAYS, can_be_infected |-> FALSE,
                     next_state |-> "immune", death_rate |-> 0],
     immune     |-> [days_at_state |-> -1, can_be_infected |-> FALSE,
                     next_state |-> "well", death_rate |-> 0],
     dead       |-> [days_at_state |-> -1, can_be_infected |-> FALSE]]

(***************************************************************************)
(* The random source and the list operations                               *)
(***************************************************************************)
\* random.random() returns a value of [0, 1).  In hundredths, its least and
\* greatest values: between them they reach every outcome that a comparison
\* random.random() < p has, for every p in hundredths.
random ==
    {0, 99}

\* Mutant: the indices are taken to start at 1.
randint_FromOne(lo, hi) ==
    (lo + 1) .. hi

\* Mutant: the upper end is taken as the population, not the last index.
randint_UpToPopulation(lo, hi) ==
    lo .. (hi + 1)

\* The values random.randint(lo, hi) can return (none: it raises ValueError).
randint(lo, hi) ==
    lo .. hi

\* Mutant: the first element is removed, whichever it is (list.pop(0)).
ListRemove_First(list, x) ==
    SubSeq(list, 2, Len(list))

\* Mutant: the last element is removed, whichever it is (list.pop()).
ListRemove_Last(list, x) ==
    SubSeq(list, 1, Len(list) - 1)

\* list.remove(x): the list without the first element equal to x.
ListRemove(list, x) ==
    LET first == CHOOSE k \in 1..Len(list) :
                     list[k] = x /\ \A m \in 1..(k-1) : list[m] # x
    IN  [k \in 1..(Len(list)-1) |-> IF k < first THEN list[k] ELSE list[k+1]]

\* The ids of the individuals of a list.
Ids(list) ==
    {list[k].id : k \in 1..Len(list)}

\* The individual of a list with a given id.
PersonOf(list, id) ==
    list[CHOOSE k \in 1..Len(list) : list[k].id = id]

\* history: one more evaluation counted for the individual the health pass
\* has just handed to the health evaluation.
Evaluation(person) ==
    [evaluations EXCEPT ![person.id] = @ + 1]

\* history: one more health-state change counted for every id whose state
\* differs between two lists or that left the list.
CountTransitions(before, after) ==
    [id \in DOMAIN transitions |->
        IF id \in Ids(before)
           /\ (id \notin Ids(after)
               \/ PersonOf(after, id).state # PersonOf(before, id).state)
        THEN transitions[id] + 1
        ELSE transitions[id]]

\* for _ in range(int(daily_contacts / 2))
ContactCount(contacts) ==
    contacts \div 2

\* The draws one individual's contact tracing may consume in exercise_2: per
\* contact an index (idx) and the value tested against the transmission
\* probability (u).
ContactDraws(contacts, population_ct) ==
    [1..ContactCount(contacts) ->
        [idx : randint(0, population_ct - 1), u : random]]

\* The values advance_health_state may draw when it advances an individual
\* that can be infected: random.random() is called only if the state of the
\* individual has a death rate.
AdvanceDraws ==
    IF \E st \in DOMAIN HEALTH_STATES :
           HEALTH_STATES[st].can_be_infected /\ HEALTH_STATES[st].death_rate > 0
    THEN random
    ELSE {0}

\* The same where an infection goes through advance_health_state, which may
\* test one more value against a death rate (d).
AdvanceContactDraws(contacts, population_ct) ==
    [1..ContactCount(contacts) ->
        [idx : randint(0, population_ct - 1), u : random, d : AdvanceDraws]]

(***************************************************************************)
(* The series: appends and maxima                                          *)
(***************************************************************************)
\* Mutant: the value is not appended.
Appended_Not(name, value) ==
    series[name]

\* One more entry of a series.
Appended(name, value) ==
    Append(series[name], value)


\* Mutant: the counter is added to entry 0, not to the entry of the day before.
Accumulated_FromFirst(name, counter) ==
    Append(series[name], series[name][1] + counter)

\* Mutant: the counter is subtracted.
Accumulated_Subtracting(name, counter) ==
    Append(series[name], series[name][day + 1] - counter)

\* The day's entry of a cumulative series: the entry of index `day` plus the
\* day's counter, appended.
Accumulated(name, counter) ==
    Append(series[name], series[name][day + 1] + counter)

\* Mutant: the deaths are not taken off the active cases.
NewActive_KeepsTheDead(cases, recoveries, deaths) ==
    cases - recoveries

\* The day's change of the active cases.
NewActive(cases, recoveries, deaths) ==
    cases - recoveries - deaths

\* Mutant: the new day also replaces the recorded one when its entry is equal.
MaxDay_AlsoOnTies(appended, recorded, new_day) ==
    IF appended[new_day + 1] >= appended[recorded + 1] THEN new_day ELSE recorded

\* The day whose entry of a series is the greatest so far: replaced by the
\* new day when its entry is strictly greater.
MaxDay(appended, recorded, new_day) ==
    IF appended[new_day + 1] > appended[recorded + 1] THEN new_day ELSE recorded

(***************************************************************************)
(* exercise_2.py: the basic simulation                                     *)
(***************************************************************************)
Ex2SeriesNames ==
    {"cumulative_cases", "active_cases", "cumulative_recoveries", "cumulative_deaths",
     "daily_new_cases", "daily_new_active_cases", "daily_new_recoveries",
     "daily_new_deaths"}

\* people = [] ... people.append({'id': person_id, 'state': 'well', 'days': 1})
HealthyPopulation(n) ==
    [k \in 1..n |-> [id |-> k - 1, state |-> "well", days |-> 1]]

Ex2Init ==
    /\ prog = "exercise_2"
    /\ pc = "seed"
    /\ day = 0
    /\ people = HealthyPopulation(POPULATION)
    /\ today_population = 0
    /\ it = 0
    /\ today_cases = 0
    /\ today_recoveries = 0
    /\ today_deaths = 0
    /\ today_confirmed_cases = 0
    /\ today_confirmed_recoveries = 0
    /\ today_confirmed_deaths = 0
    /\ today_hospitalizations = 0
    /\ today_ICU = 0
    /\ params \in Ex2Configurations
    /\ phases = NoPhases
    /\ hooks = CallableHooks
    /\ series = [n \in Ex2SeriesNames |-> << >>]
    /\ maxima = [maximum_active_cases |-> 0, maximum_active_cases_day |-> 0,
                 maximum_daily_new_cases |-> 0, maximum_new_cases_day |-> 0,
                 maximum_new_cases_cumulative |-> 0]
    /\ transitions = [id \in 0..(POPULATION - 1) |-> 0]
    /\ evaluations = [id \in 0..(POPULATION - 1) |-> 0]

\* for _ in range(INITIAL_INFECTION):
\*     people[random.randint(0, POPULATION - 1)]['state'] = 'contagious'
Ex2Seed ==
    /\ prog = "exercise_2"
    /\ pc = "seed"
    /\ it < INITIAL_INFECTION
    /\ \E r \in randint(0, POPULATION - 1) :
           people' = [people EXCEPT ![r + 1].state = "contagious"]
    /\ it' = it + 1
    /\ UNCHANGED <<prog, pc, day, today_population, today_cases, today_recoveries,
                   today_deaths, series, maxima, transitions, evaluations,
                   phased>>

\* cumulative_cases = [INITIAL_INFECTION] ... current_population = POPULATION
Ex2InitSeries ==
    /\ prog = "exercise_2"
    /\ pc = "seed"
    /\ it >= INITIAL_INFECTION
    /\ series' = [cumulative_cases       |-> <<INITIAL_INFECTION>>,
                  active_cases           |-> <<INITIAL_INFECTION>>,
                  cumulative_recoveries  |-> <<0>>,
                  cumulative_deaths      |-> <<0>>,
                  daily_new_cases        |-> <<0>>,
                  daily_new_active_cases |-> <<0>>,
                  daily_new_recoveries   |-> <<0>>,
                  daily_new_deaths       |-> <<0>>]
    /\ today_population' = POPULATION
    /\ day' = 0
    /\ pc' = "day"
    /\ UNCHANGED <<prog, people, it, today_cases, today_recoveries, today_deaths,
                   maxima, transitions, evaluations,
                   phased>>

\* A daily loop that raises once the list of people is empty.
Ex2DayBegin_AbortsWhenExhausted ==
    /\ prog = "exercise_2"
    /\ pc = "day"
    /\ day < SIMULATION_DAYS
    /\ today_cases' = 0
    /\ today_recoveries' = 0
    /\ today_deaths' = 0
    /\ it' = Len(people) - 1
    /\ transitions' = [id \in DOMAIN transitions |-> 0]
    /\ evaluations' = [id \in DOMAIN evaluations |-> 0]
    /\ pc' = IF Len(people) = 0 THEN "raised" ELSE "health"
    /\ UNCHANGED <<prog, day, people, today_population, series, maxima,
                   phased>>

\* for day in range(SIMULATION_DAYS): new_cases = 0; new_recoveries = 0;
\* new_deaths = 0; then `for person in reversed(people)` starts at the last index.
Ex2DayBegin ==
    /\ prog = "exercise_2"
    /\ pc = "day"
    /\ day < SIMULATION_DAYS
    /\ today_cases' = 0
    /\ today_recoveries' = 0
    /\ today_deaths' = 0
    /\ it' = Len(people) - 1
    /\ transitions' = [id \in DOMAIN transitions |-> 0]
    /\ evaluations' = [id \in DOMAIN evaluations |-> 0]
    /\ pc' = "health"
    /\ UNCHANGED <<prog, day, people, today_population, series, maxima,
                   phased>>

\* One step of `for person in reversed(people)`: the reversed iterator yields
\* people[it] while 0 <= it < len(people), and moves to it - 1.
Ex2HealthStep ==
    /\ prog = "exercise_2"
    /\ pc = "health"
    /\ 0 <= it /\ it < Len(people)
    /\ LET person       == people[it + 1]
           health_state == HEALTH_STATES[person.state]
           days         == person.days + 1
       IN  IF 0 < health_state.days_at_state /\ health_state.days_at_state < days
           THEN \E u \in random :
                   IF health_state.death_rate > 0 /\ u < health_state.death_rate
                   THEN /\ people' = ListRemove([people EXCEPT ![it + 1].days = days],
                                                [person EXCEPT !.days = days])
                        /\ today_deaths' = today_deaths + 1
                        /\ today_population' = today_population - 1
                        /\ UNCHANGED today_recoveries
                   ELSE /\ people' = [people EXCEPT ![it + 1] =
                                         [person EXCEPT !.state = health_state.next_state,
                                                        !.days = 1]]
                        /\ today_recoveries' =
                               IF health_state.next_state = "immune"
                               THEN today_recoveries + 1 ELSE today_recoveries
                        /\ UNCHANGED <<today_deaths, today_population>>
           ELSE /\ people' = [people EXCEPT ![it + 1].days = days]
                /\ UNCHANGED <<today_deaths, today_population, today_recoveries>>
    /\ transitions' = CountTransitions(people, people')
    /\ evaluations' = Evaluation(people[it + 1])
    /\ it' = it - 1
    /\ UNCHANGED <<prog, pc, day, today_cases, series, maxima,
                   phased>>

\* The reversed iterator is exhausted; `for person in people` starts at index 0.
Ex2HealthDone ==
    /\ prog = "exercise_2"
    /\ pc = "health"
    /\ ~(0 <= it /\ it < Len(people))
    /\ it' = 0
    /\ pc' = "contacts"
    /\ UNCHANGED <<prog, day, people, today_population, today_cases, today_recoveries,
                   today_deaths, series, maxima, transitions, evaluations,
                   phased>>

\* A susceptible individual's contacts: stop at the first infection.
\* The result: the list, the new cases, whether contact = people[...] raised,
\* and the number of contacts sampled (iterations of the loop entered).
RECURSIVE Ex2SusceptibleContacts(_, _, _, _)
Ex2SusceptibleContacts(list, me, draws, n) ==
    IF n > Len(draws)
    THEN [people |-> list, cases |-> 0, raised |-> FALSE, sampled |-> Len(draws)]
    ELSE IF draws[n].idx >= Len(list)
    THEN [people |-> list, cases |-> 0, raised |-> TRUE, sampled |-> n]
    ELSE IF list[draws[n].idx + 1].state = "contagious" /\ draws[n].u < transmission_probability
    THEN \* break
         [people |-> [list EXCEPT ![me] = [@ EXCEPT !.state = "infected", !.days = 1]],
          cases |-> 1, raised |-> FALSE, sampled |-> n]
    ELSE Ex2SusceptibleContacts(list, me, draws, n + 1)

\* Mutant: the contagious individual's sampling breaks at the first infection.
RECURSIVE Ex2ContagiousContacts_BreaksAtFirst(_, _, _, _)
Ex2ContagiousContacts_BreaksAtFirst(list, draws, n, cases) ==
    IF n > Len(draws)
    THEN [people |-> list, cases |-> cases, raised |-> FALSE, sampled |-> Len(draws)]
    ELSE IF draws[n].idx >= Len(list)
    THEN [people |-> list, cases |-> cases, raised |-> TRUE, sampled |-> n]
    ELSE IF HEALTH_STATES[list[draws[n].idx + 1].state].can_be_infected /\ draws[n].u < transmission_probability
    THEN [people |-> [list EXCEPT ![draws[n].idx + 1] =
                         [@ EXCEPT !.state = "infected", !.days = 1]],
          cases |-> cases + 1, raised |-> FALSE, sampled |-> n]
    ELSE Ex2ContagiousContacts_BreaksAtFirst(list, draws, n + 1, cases)

\* A contagious individual's contacts: every susceptible contact is tested.
RECURSIVE Ex2ContagiousContacts(_, _, _, _)
Ex2ContagiousContacts(list, draws, n, cases) ==
    IF n > Len(draws)
    THEN [people |-> list, cases |-> cases, raised |-> FALSE, sampled |-> Len(draws)]
    ELSE IF draws[n].idx >= Len(list)
    THEN [people |-> list, cases |-> cases, raised |-> TRUE, sampled |-> n]
    ELSE IF HEALTH_STATES[list[draws[n].idx + 1].state].can_be_infected /\ draws[n].u < transmission_probability
    THEN Ex2ContagiousContacts(
             [list EXCEPT ![draws[n].idx + 1] = [@ EXCEPT !.state = "infected", !.days = 1]],
             draws, n + 1, cases + 1)
    ELSE Ex2ContagiousContacts(list, draws, n + 1, cases)

\* What tracing the contacts of people[k] does, for given draws.
Ex2Contacts(list, k, draws) ==
    IF HEALTH_STATES[list[k].state].can_be_infected
    THEN Ex2SusceptibleContacts(list, k, draws, 1)
    ELSE IF list[k].state = "contagious"
    THEN Ex2ContagiousContacts(list, draws, 1, 0)
    ELSE [people |-> list, cases |-> 0, raised |-> FALSE, sampled |-> 0]

\* Whether people[k] traces contacts at all.
TracesContacts(list, k) ==
    HEALTH_STATES[list[k].state].can_be_infected \/ list[k].state = "contagious"

\* One step of `for person in people`: the contacts of people[it].
Ex2ContactStep ==
    /\ prog = "exercise_2"
    /\ pc = "contacts"
    /\ it < Len(people)
    /\ IF TracesContacts(people, it + 1) /\ ContactCount(daily_contacts) > 0
          /\ randint(0, today_population - 1) = {}
       THEN \* random.randint(0, -1) raises ValueError
            /\ pc' = "raised"
            /\ UNCHANGED <<people, today_cases, it, transitions>>
       ELSE \E draws \in ContactDraws(daily_contacts, today_population) :
               LET r == Ex2Contacts(people, it + 1, draws)
               IN  /\ people' = r.people
                   /\ today_cases' = today_cases + r.cases
                   /\ transitions' = CountTransitions(people, r.people)
                   /\ pc' = IF r.raised THEN "raised" ELSE pc
                   /\ it' = IF r.raised THEN it ELSE it + 1
    /\ UNCHANGED <<prog, day, today_population, today_recoveries, today_deaths,
                   series, maxima, evaluations,
                   phased>>

\* The daily appends to the series and the maxima, then the next day.
Ex2Append ==
    /\ prog = "exercise_2"
    /\ pc = "contacts"
    /\ it >= Len(people)
    /\ LET cumulative_cases == Accumulated("cumulative_cases", today_cases)
           active_cases == Accumulated("active_cases",
                               NewActive(today_cases, today_recoveries, today_deaths))
           new_active_max == active_cases[day + 2] > maxima.maximum_active_cases
           new_cases_max == maxima.maximum_daily_new_cases < today_cases
       IN  /\ series' =
                 [cumulative_cases       |-> cumulative_cases,
                  active_cases           |-> active_cases,
                  cumulative_recoveries  |->
                      Accumulated("cumulative_recoveries", today_recoveries),
                  cumulative_deaths      |-> Accumulated("cumulative_deaths", today_deaths),
                  daily_new_cases        |-> Appended("daily_new_cases", today_cases),
                  daily_new_active_cases |->
                      Appended("daily_new_active_cases",
                               NewActive(today_cases, today_recoveries, today_deaths)),
                  daily_new_recoveries   |->
                      Appended("daily_new_recoveries", today_recoveries),
                  daily_new_deaths       |-> Appended("daily_new_deaths", today_deaths)]
           /\ maxima' =
                 [maximum_active_cases |->
                      IF new_active_max THEN active_cases[day + 2]
                      ELSE maxima.maximum_active_cases,
                  maximum_active_cases_day |->
                      IF new_active_max THEN day ELSE maxima.maximum_active_cases_day,
                  maximum_daily_new_cases |->
                      IF new_cases_max THEN today_cases
                      ELSE maxima.maximum_daily_new_cases,
                  maximum_new_cases_day |->
                      IF new_cases_max THEN day ELSE maxima.maximum_new_cases_day,
                  maximum_new_cases_cumulative |->
                      IF new_cases_max THEN cumulative_cases[day + 2]
                      ELSE maxima.maximum_new_cases_cumulative]
    /\ day' = day + 1
    /\ pc' = "day"
    /\ UNCHANGED <<prog, people, today_population, it, today_cases, today_recoveries,
                   today_deaths, transitions, evaluations, phased>>

\* range(SIMULATION_DAYS) is exhausted: the results are printed and saved.
Ex2Finish ==
    /\ prog = "exercise_2"
    /\ pc = "day"
    /\ day >= SIMULATION_DAYS
    /\ pc' = "done"
    /\ UNCHANGED <<prog, day, people, today_population, it, today_cases,
                   today_recoveries, today_deaths, series, maxima, transitions, evaluations,
                   phased>>

Ex2Next ==
    \/ Ex2Seed
    \/ Ex2InitSeries
    \/ Ex2DayBegin
    \/ Ex2HealthStep
    \/ Ex2HealthDone
    \/ Ex2ContactStep
    \/ Ex2Append
    \/ Ex2Finish

(***************************************************************************)
(* exercise_3d.py: the health and contact functions.  They act on the part *)
(* of sim_state they read and write, a record                              *)
(*   [people, today_cases, today_recoveries, today_deaths,                 *)
(*    today_population, raised]                                            *)
(* where raised tells that an exception left the function.                 *)
(***************************************************************************)
SimState ==
    [people |-> people, today_cases |-> today_cases,
     today_recoveries |-> today_recoveries, today_deaths |-> today_deaths,
     today_population |-> today_population, raised |-> FALSE, sampled |-> 0]

\* set_initial_infected_state(person)
set_initial_infected_state(person) ==
    [person EXCEPT !.state = "contagious"]

\* Mutant: the death test is inverted (the individual dies when the draw is
\* not below the death rate).
advance_health_state_InvertedDeathTest(ss, k, old_health_state, d) ==
    IF old_health_state.death_rate > 0 /\ d >= old_health_state.death_rate
    THEN [ss EXCEPT !.people = ListRemove(ss.people, ss.people[k]),
                    !.today_deaths = @ + 1,
                    !.today_population = @ - 1]
    ELSE [ss EXCEPT !.people[k] = [@ EXCEPT !.state = old_health_state.next_state,
                                            !.days = 1],
                    !.today_recoveries =
                        IF old_health_state.next_state = "immune" THEN @ + 1 ELSE @,
                    !.today_cases =
                        IF old_health_state.next_state # "immune"
                           /\ old_health_state.next_state = "infected"
                        THEN @ + 1 ELSE @]

\* Mutant: a death leaves DAILY_POPULATION as it was.
advance_health_state_KeepsPopulation(ss, k, old_health_state, d) ==
    IF old_health_state.death_rate > 0 /\ d < old_health_state.death_rate
    THEN [ss EXCEPT !.people = ListRemove(ss.people, ss.people[k]),
                    !.today_deaths = @ + 1]
    ELSE [ss EXCEPT !.people[k] = [@ EXCEPT !.state = old_health_state.next_state,
                                            !.days = 1],
                    !.today_recoveries =
                        IF old_health_state.next_state = "immune" THEN @ + 1 ELSE @,
                    !.today_cases =
                        IF old_health_state.next_state # "immune"
                           /\ old_health_state.next_state = "infected"
                        THEN @ + 1 ELSE @]

\* Mutant: a recovery is counted when the individual starts recovering.
advance_health_state_CountsRecovering(ss, k, old_health_state, d) ==
    IF old_health_state.death_rate > 0 /\ d < old_health_state.death_rate
    THEN [ss EXCEPT !.people = ListRemove(ss.people, ss.people[k]),
                    !.today_deaths = @ + 1,
                    !.today_population = @ - 1]
    ELSE [ss EXCEPT !.people[k] = [@ EXCEPT !.state = old_health_state.next_state,
                                            !.days = 1],
                    !.today_recoveries =
                        IF old_health_state.next_state = "recovering" THEN @ + 1 ELSE @,
                    !.today_cases =
                        IF old_health_state.next_state # "recovering"
                           /\ old_health_state.next_state = "infected"
                        THEN @ + 1 ELSE @]

\* Mutant: a death adds one to DAILY_POPULATION.
advance_health_state_PopulationUp(ss, k, old_health_state, d) ==
    IF old_health_state.death_rate > 0 /\ d < old_health_state.death_rate
    THEN [ss EXCEPT !.people = ListRemove(ss.people, ss.people[k]),
                    !.today_deaths = @ + 1,
                    !.today_population = @ + 1]
    ELSE [ss EXCEPT !.people[k] = [@ EXCEPT !.state = old_health_state.next_state,
                                            !.days = 1],
                    !.today_recoveries =
                        IF old_health_state.next_state = "immune" THEN @ + 1 ELSE @,
                    !.today_cases =
                        IF old_health_state.next_state # "immune"
                           /\ old_health_state.next_state = "infected"
                        THEN @ + 1 ELSE @]

\* advance_health_state(sim_state, person, old_health_state), person being
\* ss.people[k] and d the value random.random() returns if it is called.
advance_health_state(ss, k, old_health_state, d) ==
    IF old_health_state.death_rate > 0 /\ d < old_health_state.death_rate
    THEN [ss EXCEPT !.people = ListRemove(ss.people, ss.people[k]),
                    !.today_deaths = @ + 1,
                    !.today_population = @ - 1]
    ELSE [ss EXCEPT !.people[k] = [@ EXCEPT !.state = old_health_state.next_state,
                                            !.days = 1],
                    !.today_recoveries =
                        IF old_health_state.next_state = "immune" THEN @ + 1 ELSE @,
                    !.today_cases =
                        IF old_health_state.next_state # "immune"
                           /\ old_health_state.next_state = "infected"
                        THEN @ + 1 ELSE @]

\* Mutant: the transition is evaluated when the days reach the duration.
evaluate_health_for_day_OneDayEarly(ss, k, d) ==
    LET old_health_state == HEALTH_STATES[ss.people[k].state]
        aged == [ss EXCEPT !.people[k].days = @ + 1]
    IN  IF 0 < old_health_state.days_at_state
           /\ old_health_state.days_at_state <= aged.people[k].days
        THEN advance_health_state(aged, k, old_health_state, d)
        ELSE aged

\* evaluate_health_for_day(sim_state, person), person being ss.people[k]
evaluate_health_for_day(ss, k, d) ==
    LET old_health_state == HEALTH_STATES[ss.people[k].state]
        aged == [ss EXCEPT !.people[k].days = @ + 1]
    IN  IF 0 < old_health_state.days_at_state
           /\ old_health_state.days_at_state < aged.people[k].days
        THEN advance_health_state(aged, k, old_health_state, d)
        ELSE aged

\* evaluate_contacts, first branch: the person can be infected.
RECURSIVE SusceptibleContacts(_, _, _, _, _)
SusceptibleContacts(ss, k, probability, draws, n) ==
    IF n > Len(draws)
    THEN [ss EXCEPT !.sampled = Len(draws)]
    ELSE IF draws[n].idx >= Len(ss.people)
    THEN [ss EXCEPT !.raised = TRUE, !.sampled = n]
    ELSE IF ss.people[draws[n].idx + 1].state = "contagious"
            /\ draws[n].u < probability
    THEN \* break
         advance_health_state([ss EXCEPT !.sampled = n], k,
                              HEALTH_STATES[ss.people[k].state], draws[n].d)
    ELSE SusceptibleContacts(ss, k, probability, draws, n + 1)

\* evaluate_contacts, second branch: the person is contagious.
RECURSIVE ContagiousContacts(_, _, _, _)
ContagiousContacts(ss, probability, draws, n) ==
    IF n > Len(draws)
    THEN [ss EXCEPT !.sampled = Len(draws)]
    ELSE IF draws[n].idx >= Len(ss.people)
    THEN [ss EXCEPT !.raised = TRUE, !.sampled = n]
    ELSE IF HEALTH_STATES[ss.people[draws[n].idx + 1].state].can_be_infected
            /\ draws[n].u < probability
    THEN ContagiousContacts(
             advance_health_state(ss, draws[n].idx + 1,
                 HEALTH_STATES[ss.people[draws[n].idx + 1].state], draws[n].d),
             probability, draws, n + 1)
    ELSE ContagiousContacts(ss, probability, draws, n + 1)

\* Mutant: a transmission probability of 0 is taken as unset and replaced by
\* the default.
evaluate_contacts_ZeroIsUnset(ss, k, probability, draws) ==
    LET used == IF probability = 0 THEN TRANSMISSION_PROBABILITY ELSE probability
    IN  IF HEALTH_STATES[ss.people[k].state].can_be_infected
        THEN SusceptibleContacts(ss, k, used, draws, 1)
        ELSE IF ss.people[k].state = "contagious"
        THEN ContagiousContacts(ss, used, draws, 1)
        ELSE ss

\* evaluate_contacts(sim_state, person, population), person being ss.people[k]
\* and population the list ss.people.
evaluate_contacts(ss, k, probability, draws) ==
    IF HEALTH_STATES[ss.people[k].state].can_be_infected
    THEN SusceptibleContacts(ss, k, probability, draws, 1)
    ELSE IF ss.people[k].state = "contagious"
    THEN ContagiousContacts(ss, probability, draws, 1)
    ELSE ss

\* The function's result written back to the state.
Store(ss) ==
    /\ people' = ss.people
    /\ today_cases' = ss.today_cases
    /\ today_recoveries' = ss.today_recoveries
    /\ today_deaths' = ss.today_deaths
    /\ today_population' = ss.today_population
    /\ transitions' = CountTransitions(people, ss.people)

(***************************************************************************)
(* The keys of the series (simulate_v2.py; exercise_3d.py reads them from  *)
(* the simulate module)                                                    *)
(***************************************************************************)
CUMULATIVE_CASES_SERIES == "cumulative cases"
CUMULATIVE_CONFIRMED_CASES_SERIES == "cumulative confirmed cases"
CUMULATIVE_RECOVERIES_SERIES == "cumulative recoveries"
CUMULATIVE_CONFIRMED_RECOVERIES_SERIES == "cumulative confirmed recoveries"
CUMULATIVE_DEATHS_SERIES == "cumulative confirmed deaths"
CUMULATIVE_CONFIRMED_DEATHS_SERIES == "cumulative deaths"
ACTIVE_CASES_SERIES == "active cases"
ACTIVE_CONFIRMED_CASES_SERIES == "active confirmed cases"
ACTIVE_HOSPITALIZED_CASES_SERIES == "active hospitalized cases"
ACTIVE_ICU_CASES_SERIES == "active ICU cases"
NEW_CASES_SERIES == "new cases"
NEW_CONFIRMED_CASES_SERIES == "new confirmed cases"
NEW_ACTIVE_CASES_SERIES == "new active cases"
NEW_CONFIRMED_ACTIVE_CASES_SERIES == "new confirmed active cases"
NEW_RECOVERIES_SERIES == "new recoveries"
NEW_DEATHS_SERIES == "new deaths"

\* The series the daily loop of exercise_3d appends to.
Ex3dSeriesNames ==
    {CUMULATIVE_CASES_SERIES, CUMULATIVE_CONFIRMED_CASES_SERIES, ACTIVE_CASES_SERIES,
     ACTIVE_CONFIRMED_CASES_SERIES, CUMULATIVE_RECOVERIES_SERIES,
     CUMULATIVE_DEATHS_SERIES, NEW_CASES_SERIES, NEW_CONFIRMED_CASES_SERIES,
     NEW_ACTIVE_CASES_SERIES, NEW_CONFIRMED_ACTIVE_CASES_SERIES, NEW_RECOVERIES_SERIES,
     NEW_DEATHS_SERIES}

\* The series of run_simulation.
V2SeriesNames ==
    Ex3dSeriesNames \cup
    {CUMULATIVE_CONFIRMED_RECOVERIES_SERIES, CUMULATIVE_CONFIRMED_DEATHS_SERIES,
     ACTIVE_HOSPITALIZED_CASES_SERIES, ACTIVE_ICU_CASES_SERIES}

\* The testing probabilities a run may be configured with, in hundredths.
TestingProbabilities ==
    {0, 50, 100}

\* The parameters of the initial phase (phases.set_initial_phase).
InitialPhases ==
    {p \in [daily_contacts : {MaxDailyContacts},
            transmission_probability : TransmissionProbabilities,
            testing_probability : TestingProbabilities,
            death_rate : DeathRates] :
        \/ p.testing_probability = 100
        \/ /\ p.transmission_probability = TRANSMISSION_PROBABILITY
           /\ p.death_rate = CONTAGIOUS_DEATH_RATE}

(***************************************************************************)
(* simulate_v2.py: test_condition(ss, condition, day).  ss is the part of  *)
(* sim_state it reads: [series, maxima, current_phase].  The result tells  *)
(* the value returned (advance), how many times 'Unrecognized condition'   *)
(* was printed (reported) and whether a KeyError left the function         *)
(* (raised).  The confirmed series hold hundredths.                        *)
(***************************************************************************)
Returned(advance) ==
    [advance |-> advance, reported |-> 0, raised |-> FALSE]

KeyError ==
    [advance |-> FALSE, reported |-> 0, raised |-> TRUE]

\* Mutant: the conditions on elapsed days hold from the N-th day on.
test_condition_DaysInclusive(ss, condition, d) ==
    IF "type" \notin DOMAIN condition
    THEN KeyError
    ELSE IF condition.type \in {"cumulative cases exceeds", "daily new confirmed above",
                                "daily new confirmed below",
                                "cumulative confirmed cases exceeds"}
    THEN IF "count" \notin DOMAIN condition THEN KeyError
         ELSE Returned(
             CASE condition.type = "cumulative cases exceeds" ->
                      ss.series[CUMULATIVE_CASES_SERIES][d + 1] >= condition.count
               [] condition.type = "daily new confirmed above" ->
                      ss.series[NEW_CONFIRMED_CASES_SERIES][d + 1] >= 100 * condition.count
               [] condition.type = "daily new confirmed below" ->
                      ss.series[NEW_CONFIRMED_CASES_SERIES][d + 1] <= 100 * condition.count
               [] OTHER ->
                      ss.series[CUMULATIVE_CONFIRMED_CASES_SERIES][d + 1]
                          >= 100 * condition.count)
    ELSE IF condition.type \in {"days after max active", "days after confirmed max active",
                                "days in phase"}
    THEN IF "days" \notin DOMAIN condition THEN KeyError
         ELSE Returned(
             CASE condition.type = "days after max active" ->
                      d - ss.maxima.max_active_cases_day >= condition.days
               [] condition.type = "days after confirmed max active" ->
                      d - ss.maxima.max_active_confirmed_cases_day >= condition.days
               [] OTHER ->
                      d - ss.current_phase.start_day >= condition.days)
    ELSE IF condition.type = "day in simulation"
    THEN IF "day" \notin DOMAIN condition THEN KeyError
         ELSE Returned(d = condition.day)
    ELSE [advance |-> FALSE, reported |-> 1, raised |-> FALSE]

\* Mutant: a condition of an unrecognized kind is taken as satisfied.
test_condition_UnrecognizedAdvances(ss, condition, d) ==
    IF "type" \notin DOMAIN condition
    THEN KeyError
    ELSE IF condition.type \in {"cumulative cases exceeds", "daily new confirmed above",
                                "daily new confirmed below",
                                "cumulative confirmed cases exceeds"}
    THEN IF "count" \notin DOMAIN condition THEN KeyError
         ELSE Returned(
             CASE condition.type = "cumulative cases exceeds" ->
                      ss.series[CUMULATIVE_CASES_SERIES][d + 1] >= condition.count
               [] condition.type = "daily new confirmed above" ->
                      ss.series[NEW_CONFIRMED_CASES_SERIES][d + 1] >= 100 * condition.count
               [] condition.type = "daily new confirmed below" ->
                      ss.series[NEW_CONFIRMED_CASES_SERIES][d + 1] <= 100 * condition.count
               [] OTHER ->
                      ss.series[CUMULATIVE_CONFIRMED_CASES_SERIES][d + 1]
                          >= 100 * condition.count)
    ELSE IF condition.type \in {"days after max active", "days after confirmed max active",
                                "days in phase"}
    THEN IF "days" \notin DOMAIN condition THEN KeyError
         ELSE Returned(
             CASE condition.type = "days after max active" ->
                      d - ss.maxima.max_active_cases_day > condition.days
               [] condition.type = "days after confirmed max active" ->
                      d - ss.maxima.max_active_confirmed_cases_day > condition.days
               [] OTHER ->
                      d - ss.current_phase.start_day > condition.days)
    ELSE IF condition.type = "day in simulation"
    THEN IF "day" \notin DOMAIN condition THEN KeyError
         ELSE Returned(d = condition.day)
    ELSE [advance |-> TRUE, reported |-> 1, raised |-> FALSE]

test_condition(ss, condition, d) ==
    IF "type" \notin DOMAIN condition
    THEN KeyError
    ELSE IF condition.type \in {"cumulative cases exceeds", "daily new confirmed above",
                                "daily new confirmed below",
                                "cumulative confirmed cases exceeds"}
    THEN IF "count" \notin DOMAIN condition THEN KeyError
         ELSE Returned(
             CASE condition.type = "cumulative cases exceeds" ->
                      ss.series[CUMULATIVE_CASES_SERIES][d + 1] >= condition.count
               [] condition.type = "daily new confirmed above" ->
                      ss.series[NEW_CONFIRMED_CASES_SERIES][d + 1] >= 100 * condition.count
               [] condition.type = "daily new confirmed below" ->
                      ss.series[NEW_CONFIRMED_CASES_SERIES][d + 1] <= 100 * condition.count
               [] OTHER ->
                      ss.series[CUMULATIVE_CONFIRMED_CASES_SERIES][d + 1]
                          >= 100 * condition.count)
    ELSE IF condition.type \in {"days after max active", "days after confirmed max active",
                                "days in phase"}
    THEN IF "days" \notin DOMAIN condition THEN KeyError
         ELSE Returned(
             CASE condition.type = "days after max active" ->
                      d - ss.maxima.max_active_cases_day > condition.days
               [] condition.type = "days after confirmed max active" ->
                      d - ss.maxima.max_active_confirmed_cases_day > condition.days
               [] OTHER ->
                      d - ss.current_phase.start_day > condition.days)
    ELSE IF condition.type = "day in simulation"
    THEN IF "day" \notin DOMAIN condition THEN KeyError
         ELSE Returned(d = condition.day)
    ELSE [advance |-> FALSE, reported |-> 1, raised |-> FALSE]

(***************************************************************************)
(* The phase controller (module phases): an ordered list of phases, the    *)
(* first active from day 0, each later one guarded by a condition.  Once a *)
(* day the condition of the next phase that is not yet active is tested;   *)
(* when it holds the phase becomes current, its start day is recorded and  *)
(* its parameters take effect.  The day of the seeding is day 0 and the    *)
(* daily step that appends entry day + 1 of the series is day day + 1.     *)
(***************************************************************************)
\* A later phase: its condition and its parameters.
Phase(condition, contacts, testing) ==
    [condition |-> condition, daily_contacts |-> contacts,
     transmission_probability |-> TRANSMISSION_PROBABILITY,
     testing_probability |-> testing]

\* The phases that may follow the initial one in a run.
NoLaterPhase == << >>

LockDownOnDay ==
    <<Phase([type |-> "day in simulation", day |-> 1], 2, 50)>>

UnrecognizedKind ==
    <<Phase([type |-> "cumulative cases above"], 2, 50)>>

ConditionWithoutKind ==
    <<Phase([count |-> 1], 2, 50)>>

ConditionWithoutCount ==
    <<Phase([type |-> "cumulative cases exceeds"], 2, 50)>>

LockDownThenReopen ==
    <<Phase([type |-> "cumulative cases exceeds", count |-> MaxInitialInfection], 2, 50),
      Phase([type |-> "days in phase", days |-> 0], MaxDailyContacts, 100)>>

LaterPhases ==
    {NoLaterPhase, LockDownOnDay, UnrecognizedKind, ConditionWithoutKind,
     ConditionWithoutCount, LockDownThenReopen}

\* phases.set_initial_phase(sim_state): the first phase is current, from day 0.
set_initial_phase(initial, later) ==
    [list |-> <<[daily_contacts |-> initial.daily_contacts,
                 transmission_probability |-> initial.transmission_probability,
                 testing_probability |-> initial.testing_probability]>> \o later,
     current |-> 1,
     start_days |-> <<0>>,
     reported |-> 0]

\* What the phase evaluation reads and writes.
PhasedState ==
    [series |-> series, maxima |-> maxima, phases |-> phases, params |-> params]

\* Mutant: the start day of the phase that was current is recorded again for
\* the phase that becomes current.
daily_phase_evaluation_KeepsStartDay(ss, d) ==
    IF ss.phases.current >= Len(ss.phases.list)
    THEN [phases |-> ss.phases, params |-> ss.params, changed |-> FALSE, raised |-> FALSE]
    ELSE LET next == ss.phases.list[ss.phases.current + 1]
             t == test_condition(
                      [series |-> ss.series, maxima |-> ss.maxima,
                       current_phase |->
                           [start_day |-> ss.phases.start_days[ss.phases.current]]],
                      next.condition, d)
         IN  IF t.raised
             THEN [phases |-> ss.phases, params |-> ss.params, changed |-> FALSE,
                   raised |-> TRUE]
             ELSE IF t.advance
             THEN [phases |-> [ss.phases EXCEPT
                                  !.current = @ + 1,
                                  !.start_days =
                                      Append(@, ss.phases.start_days[ss.phases.current]),
                                  !.reported = @ + t.reported],
                   params |-> [ss.params EXCEPT
                                  !.daily_contacts = next.daily_contacts,
                                  !.transmission_probability =
                                      next.transmission_probability,
                                  !.testing_probability = next.testing_probability],
                   changed |-> TRUE, raised |-> FALSE]
             ELSE [phases |-> [ss.phases EXCEPT !.reported = @ + t.reported],
                   params |-> ss.params, changed |-> FALSE, raised |-> FALSE]

\* phases.daily_phase_evaluation(sim_state, day): the phases and parameters
\* after the evaluation, whether the phase changed, whether test_condition
\* raised.
daily_phase_evaluation(ss, d) ==
    IF ss.phases.current >= Len(ss.phases.list)
    THEN [phases |-> ss.phases, params |-> ss.params, changed |-> FALSE, raised |-> FALSE]
    ELSE LET next == ss.phases.list[ss.phases.current + 1]
             t == test_condition(
                      [series |-> ss.series, maxima |-> ss.maxima,
                       current_phase |->
                           [start_day |-> ss.phases.start_days[ss.phases.current]]],
                      next.condition, d)
         IN  IF t.raised
             THEN [phases |-> ss.phases, params |-> ss.params, changed |-> FALSE,
                   raised |-> TRUE]
             ELSE IF t.advance
             THEN [phases |-> [ss.phases EXCEPT
                                  !.current = @ + 1,
                                  !.start_days = Append(@, d + 1),
                                  !.reported = @ + t.reported],
                   params |-> [ss.params EXCEPT
                                  !.daily_contacts = next.daily_contacts,
                                  !.transmission_probability =
                                      next.transmission_probability,
                                  !.testing_probability = next.testing_probability],
                   changed |-> TRUE, raised |-> FALSE]
             ELSE [phases |-> [ss.phases EXCEPT !.reported = @ + t.reported],
                   params |-> ss.params, changed |-> FALSE, raised |-> FALSE]

\* The initial phases and the later phases of a run: later phases are
\* configured on the default parameters, fully tested.
PhasedConfigurations ==
    {c \in [params : InitialPhases, later : LaterPhases] :
        c.later # NoLaterPhase =>
            /\ c.params.transmission_probability = TRANSMISSION_PROBABILITY
            /\ c.params.death_rate = CONTAGIOUS_DEATH_RATE
            /\ c.params.testing_probability = 100}

\* The hooks of sim_state: DAILY_UPDATE_STATE is a callable or None;
\* events and daily_event_evaluation are None or an event list and its
\* evaluator.
Hooks ==
    {CallableHooks,
     [CallableHooks EXCEPT !.daily_update_state = "None"],
     [CallableHooks EXCEPT !.daily_event_evaluation = "callable", !.events = QuietDays]}

(***************************************************************************)
(* exercise_3d.py: the phased simulation script                            *)
(***************************************************************************)
\* s.create_initial_state(...), the population and phases.set_initial_phase
Ex3dInit ==
    /\ prog = "exercise_3d"
    /\ pc = "seed"
    /\ day = 0
    /\ people = HealthyPopulation(POPULATION)
    /\ today_population = 0
    /\ it = 0
    /\ today_cases = 0
    /\ today_recoveries = 0
    /\ today_deaths = 0
    /\ today_confirmed_cases = 0
    /\ today_confirmed_recoveries = 0
    /\ today_confirmed_deaths = 0
    /\ today_hospitalizations = 0
    /\ today_ICU = 0
    /\ params \in InitialPhases
    /\ phases = set_initial_phase(params, NoLaterPhase)
    /\ hooks = CallableHooks
    /\ series = [n \in Ex3dSeriesNames |->
                    IF n \in {CUMULATIVE_CASES_SERIES, ACTIVE_CASES_SERIES}
                    THEN <<INITIAL_INFECTION>> ELSE <<0>>]
    /\ maxima = [max_new_daily_cases_day |-> 0, max_new_daily_confirmed_cases_day |-> 0,
                 max_active_cases_day |-> 0, max_active_confirmed_cases_day |-> 0]
    /\ transitions = [id \in 0..(POPULATION - 1) |-> 0]
    /\ evaluations = [id \in 0..(POPULATION - 1) |-> 0]

\* for _ in range(sim_state[s.INITIAL_INFECTION]):
\*     set_initial_infected_state(sim_state[s.PEOPLE][random.randint(0, POPULATION - 1)])
Ex3dSeed ==
    /\ prog = "exercise_3d"
    /\ pc = "seed"
    /\ it < INITIAL_INFECTION
    /\ \E r \in randint(0, POPULATION - 1) :
           people' = [people EXCEPT ![r + 1] = set_initial_infected_state(@)]
    /\ it' = it + 1
    /\ UNCHANGED <<prog, pc, day, today_population, today_cases, today_recoveries,
                   today_deaths, series, maxima, transitions, evaluations, phased>>

\* sim_state[s.DAILY_POPULATION] = sim_state[s.POPULATION]
Ex3dSeedDone ==
    /\ prog = "exercise_3d"
    /\ pc = "seed"
    /\ it >= INITIAL_INFECTION
    /\ today_population' = POPULATION
    /\ day' = 0
    /\ pc' = "day"
    /\ UNCHANGED <<prog, people, it, today_cases, today_recoveries, today_deaths,
                   series, maxima, transitions, evaluations, phased>>

\* for day in range(sim_state[s.SIMULATION_DAYS]): the phase evaluation, then
\* the day's counters start at zero.
Ex3dDayBegin ==
    /\ prog = "exercise_3d"
    /\ pc = "day"
    /\ day < SIMULATION_DAYS
    /\ LET evaluated == daily_phase_evaluation(PhasedState, day)
       IN  IF evaluated.raised
           THEN /\ pc' = "raised"
                /\ UNCHANGED <<params, phases, today_cases, today_deaths,
                               today_recoveries, it, transitions, evaluations>>
           ELSE /\ params' = evaluated.params
                /\ phases' = evaluated.phases
                /\ today_cases' = 0
                /\ today_deaths' = 0
                /\ today_recoveries' = 0
                /\ it' = Len(people) - 1
                /\ transitions' = [id \in DOMAIN transitions |-> 0]
                /\ evaluations' = [id \in DOMAIN evaluations |-> 0]
                /\ pc' = "health"
    /\ UNCHANGED <<prog, day, people, today_population, series, maxima,
                   today_confirmed_cases, today_confirmed_recoveries,
                   today_confirmed_deaths, today_hospitalizations, today_ICU, hooks>>

\* One step of `for person in reversed(sim_state[s.PEOPLE])`.
Ex3dHealthStep ==
    /\ prog = "exercise_3d"
    /\ pc = "health"
    /\ 0 <= it /\ it < Len(people)
    /\ \E d \in random : Store(evaluate_health_for_day(SimState, it + 1, d))
    /\ evaluations' = Evaluation(people[it + 1])
    /\ it' = it - 1
    /\ UNCHANGED <<prog, pc, day, series, maxima, phased>>

\* The reversed iterator is exhausted; `for person in sim_state[s.PEOPLE]`.
Ex3dHealthDone ==
    /\ prog = "exercise_3d"
    /\ pc = "health"
    /\ ~(0 <= it /\ it < Len(people))
    /\ it' = 0
    /\ pc' = "contacts"
    /\ UNCHANGED <<prog, day, people, today_population, today_cases, today_recoveries,
                   today_deaths, series, maxima, transitions, evaluations, phased>>

\* One step of `for person in sim_state[s.PEOPLE]`: evaluate_contacts.
Ex3dContactStep ==
    /\ prog = "exercise_3d"
    /\ pc = "contacts"
    /\ it < Len(people)
    /\ IF TracesContacts(people, it + 1) /\ ContactCount(params.daily_contacts) > 0
          /\ randint(0, today_population - 1) = {}
       THEN \* random.randint(0, -1) raises ValueError
            /\ pc' = "raised"
            /\ UNCHANGED <<people, today_cases, today_recoveries, today_deaths,
                           today_population, it, transitions>>
       ELSE \E draws \in AdvanceContactDraws(params.daily_contacts, today_population) :
               LET r == evaluate_contacts(SimState, it + 1,
                                          params.transmission_probability, draws)
               IN  /\ Store(r)
                   /\ pc' = IF r.raised THEN "raised" ELSE pc
                   /\ it' = IF r.raised THEN it ELSE it + 1
    /\ UNCHANGED <<prog, day, series, maxima, evaluations, phased>>

\* The daily appends of exercise_3d and the maxima.
Ex3dAppend ==
    /\ prog = "exercise_3d"
    /\ pc = "contacts"
    /\ it >= Len(people)
    /\ LET new_confirmed_cases == params.testing_probability * today_cases
           new_confirmed_recoveries == params.testing_probability * today_recoveries
           active == Accumulated(ACTIVE_CASES_SERIES,
                        NewActive(today_cases, today_recoveries, today_deaths))
           active_confirmed == Accumulated(ACTIVE_CONFIRMED_CASES_SERIES,
                        NewActive(new_confirmed_cases, new_confirmed_recoveries,
                                  100 * today_deaths))
           new == Appended(NEW_CASES_SERIES, today_cases)
           new_confirmed == Appended(NEW_CONFIRMED_CASES_SERIES, new_confirmed_cases)
       IN  /\ series' =
                 (CUMULATIVE_CASES_SERIES :>
                      Accumulated(CUMULATIVE_CASES_SERIES, today_cases))
              @@ (CUMULATIVE_CONFIRMED_CASES_SERIES :>
                      Accumulated(CUMULATIVE_CONFIRMED_CASES_SERIES, new_confirmed_cases))
              @@ (ACTIVE_CASES_SERIES :> active)
              @@ (ACTIVE_CONFIRMED_CASES_SERIES :> active_confirmed)
              @@ (CUMULATIVE_RECOVERIES_SERIES :>
                      Accumulated(CUMULATIVE_RECOVERIES_SERIES, today_recoveries))
              @@ (CUMULATIVE_DEATHS_SERIES :>
                      Accumulated(CUMULATIVE_DEATHS_SERIES, today_deaths))
              @@ (NEW_CASES_SERIES :> new)
              @@ (NEW_CONFIRMED_CASES_SERIES :> new_confirmed)
              @@ (NEW_ACTIVE_CASES_SERIES :> Appended(NEW_ACTIVE_CASES_SERIES,
                      NewActive(today_cases, today_recoveries, today_deaths)))
              @@ (NEW_CONFIRMED_ACTIVE_CASES_SERIES :>
                      Appended(NEW_CONFIRMED_ACTIVE_CASES_SERIES,
                          NewActive(new_confirmed_cases, new_confirmed_recoveries,
                                    100 * today_deaths)))
              @@ (NEW_RECOVERIES_SERIES :> Appended(NEW_RECOVERIES_SERIES, today_recoveries))
              @@ (NEW_DEATHS_SERIES :> Appended(NEW_DEATHS_SERIES, today_deaths))
           /\ maxima' =
                 [max_active_cases_day |->
                      MaxDay(active, maxima.max_active_cases_day, day + 1),
                  max_active_confirmed_cases_day |->
                      MaxDay(active_confirmed, maxima.max_active_confirmed_cases_day,
                             day + 1),
                  max_new_daily_cases_day |->
                      MaxDay(new, maxima.max_new_daily_cases_day, day + 1),
                  max_new_daily_confirmed_cases_day |->
                      MaxDay(new_confirmed, maxima.max_new_daily_confirmed_cases_day,
                             day + 1)]
    /\ day' = day + 1
    /\ pc' = "day"
    /\ UNCHANGED <<prog, people, today_population, it, today_cases, today_recoveries,
                   today_deaths, transitions, evaluations, phased>>

\* range(SIMULATION_DAYS) is exhausted: the results are printed and saved.
Ex3dFinish ==
    /\ prog = "exercise_3d"
    /\ pc = "day"
    /\ day >= SIMULATION_DAYS
    /\ pc' = "done"
    /\ UNCHANGED <<prog, day, people, today_population, it, today_cases,
                   today_recoveries, today_deaths, series, maxima, transitions, evaluations, phased>>

Ex3dNext ==
    \/ Ex3dSeed
    \/ Ex3dSeedDone
    \/ Ex3dDayBegin
    \/ Ex3dHealthStep
    \/ Ex3dHealthDone
    \/ Ex3dContactStep
    \/ Ex3dAppend
    \/ Ex3dFinish

(***************************************************************************)
(* simulate_v2.py: run_simulation.  The hooks it calls through sim_state   *)
(* (SET_DEFAULT_HEALTH, SET_INFECTED, DAILY_HEALTH_EVALUATION,             *)
(* DAILY_EVALUATE_CONTACTS, DAILY_UPDATE_STATE, DAILY_PHASE_EVALUATION,    *)
(* UPDATE_TESTING_RATES) are injected by the caller.                       *)
(***************************************************************************)
\* A confirmed figure: the true count scaled by the testing probability
\* (in hundredths of an individual).
Confirmed(testing_probability, count) ==
    testing_probability * count

\* The seeding loop is cut when the day's cases reach this count (it does
\* not end by itself when the testing probability is 0).
SeedCap ==
    2 * MaxInitialInfection + 1

\* create_initial_state(...)
V2Init ==
    /\ prog = "simulate_v2"
    /\ pc = "create"
    /\ day = -1
    /\ people = << >>
    /\ today_population = 0
    /\ it = 0
    /\ today_cases = 0
    /\ today_recoveries = 0
    /\ today_deaths = 0
    /\ today_confirmed_cases = 0
    /\ today_confirmed_recoveries = 0
    /\ today_confirmed_deaths = 0
    /\ today_hospitalizations = 0
    /\ today_ICU = 0
    /\ \E c \in PhasedConfigurations :
           /\ params = c.params
           /\ phases = set_initial_phase(c.params, c.later)
    /\ hooks \in Hooks
    /\ (hooks # CallableHooks) =>
           (phases.list = set_initial_phase(params, NoLaterPhase).list
            /\ params.testing_probability = 100
            /\ params.transmission_probability = TRANSMISSION_PROBABILITY
            /\ params.death_rate = CONTAGIOUS_DEATH_RATE)
    /\ series = [n \in V2SeriesNames |-> << >>]
    /\ maxima = [max_new_daily_cases_day |-> 0, max_new_daily_confirmed_cases_day |-> 0,
                 max_active_cases_day |-> 0, max_active_confirmed_cases_day |-> 0,
                 max_active_hospitalizations_day |-> 0, max_active_ICU_day |-> 0]
    /\ transitions = [id \in 0..(POPULATION - 1) |-> 0]
    /\ evaluations = [id \in 0..(POPULATION - 1) |-> 0]

\* for person_id in range(ss[POPULATION]): ... ss[PEOPLE].append(person)
\* ss[DAILY_POPULATION] = ss[POPULATION]
V2CreatePopulation ==
    /\ prog = "simulate_v2"
    /\ pc = "create"
    /\ people' = HealthyPopulation(POPULATION)
    /\ today_population' = POPULATION
    /\ day' = -1
    /\ pc' = "day"
    /\ UNCHANGED <<prog, it, today_cases, today_recoveries, today_deaths, series,
                   maxima, transitions, evaluations, phased>>

\* A daily loop that calls DAILY_UPDATE_STATE only when it is not None.
V2DayBegin_SkipsMissingHook ==
    /\ prog = "simulate_v2"
    /\ pc = "day"
    /\ day < SIMULATION_DAYS
    /\ today_cases' = 0
    /\ today_confirmed_cases' = 0
    /\ today_recoveries' = 0
    /\ today_confirmed_recoveries' = 0
    /\ today_deaths' = 0
    /\ today_confirmed_deaths' = 0
    /\ today_hospitalizations' = 0
    /\ today_ICU' = 0
    /\ IF day = -1
       THEN /\ pc' = "seed"
            /\ UNCHANGED <<params, phases, it, transitions, evaluations>>
       ELSE LET evaluated == daily_phase_evaluation(PhasedState, day)
            IN  IF evaluated.raised
                THEN /\ pc' = "raised"
                     /\ UNCHANGED <<params, phases, it, transitions, evaluations>>
                ELSE \* a changed phase is handed to ss[UPDATE_TESTING_RATES]
                     /\ params' = evaluated.params
                     /\ phases' = evaluated.phases
                     /\ it' = Len(people) - 1
                     /\ transitions' = [id \in DOMAIN transitions |-> 0]
                     /\ evaluations' = [id \in DOMAIN evaluations |-> 0]
                     /\ pc' = "health"
    /\ UNCHANGED <<prog, day, people, today_population, series, maxima, hooks>>

\* for day in range(-1, ss[SIMULATION_DAYS]): the day's counters start at
\* zero; on day -1 the seeding follows, on the other days DAILY_UPDATE_STATE,
\* DAILY_PHASE_EVALUATION and the pass over the (empty) hospitalized list.
V2DayBegin ==
    /\ prog = "simulate_v2"
    /\ pc = "day"
    /\ day < SIMULATION_DAYS
    /\ today_cases' = 0
    /\ today_confirmed_cases' = 0
    /\ today_recoveries' = 0
    /\ today_confirmed_recoveries' = 0
    /\ today_deaths' = 0
    /\ today_confirmed_deaths' = 0
    /\ today_hospitalizations' = 0
    /\ today_ICU' = 0
    /\ IF day = -1
       THEN /\ pc' = "seed"
            /\ UNCHANGED <<params, phases, it, transitions, evaluations>>
       ELSE IF hooks.daily_update_state = "None"
       THEN \* ss[DAILY_UPDATE_STATE](ss, day): None is not callable (TypeError)
            /\ pc' = "raised"
            /\ UNCHANGED <<params, phases, it, transitions, evaluations>>
       ELSE LET evaluated == daily_phase_evaluation(PhasedState, day)
            IN  IF evaluated.raised
                THEN /\ pc' = "raised"
                     /\ UNCHANGED <<params, phases, it, transitions, evaluations>>
                ELSE \* a changed phase is handed to ss[UPDATE_TESTING_RATES]
                     /\ params' = evaluated.params
                     /\ phases' = evaluated.phases
                     /\ it' = Len(people) - 1
                     /\ transitions' = [id \in DOMAIN transitions |-> 0]
                     /\ evaluations' = [id \in DOMAIN evaluations |-> 0]
                     /\ pc' = "health"
    /\ UNCHANGED <<prog, day, people, today_population, series, maxima, hooks>>

\* ss[SET_INFECTED](ss, person): the individual is made contagious and
\* counted as a case of the day.
set_infected(ss, k) ==
    [ss EXCEPT !.people[k] = set_initial_infected_state(@),
               !.today_cases = @ + 1]

\* while ss[INITIAL_INFECTION] > ss[DAILY_CONFIRMED_CASES]:
\*     ss[SET_INFECTED](ss, ss[PEOPLE][random.randint(0, ss[POPULATION] - 1)])
V2Seed ==
    /\ prog = "simulate_v2"
    /\ pc = "seed"
    /\ 100 * INITIAL_INFECTION > today_confirmed_cases
    /\ today_cases < SeedCap
    /\ \E r \in randint(0, POPULATION - 1) :
           LET ss == set_infected(SimState, r + 1)
           IN  /\ people' = ss.people
               /\ today_cases' = ss.today_cases
               /\ today_confirmed_cases' =
                      Confirmed(params.testing_probability, ss.today_cases)
    /\ UNCHANGED <<prog, pc, day, today_population, it, today_recoveries, today_deaths,
                   today_confirmed_recoveries, today_confirmed_deaths,
                   today_hospitalizations, today_ICU, params, phases, hooks, series, maxima,
                   transitions, evaluations>>

\* The appends of day -1: entry 0 of every series.
V2SeedAppend ==
    /\ prog = "simulate_v2"
    /\ pc = "seed"
    /\ ~(100 * INITIAL_INFECTION > today_confirmed_cases)
    /\ series' =
          (CUMULATIVE_CASES_SERIES :> Appended(CUMULATIVE_CASES_SERIES, today_cases))
       @@ (CUMULATIVE_CONFIRMED_CASES_SERIES :>
               Appended(CUMULATIVE_CONFIRMED_CASES_SERIES, today_confirmed_cases))
       @@ (ACTIVE_CASES_SERIES :> Appended(ACTIVE_CASES_SERIES,
               NewActive(today_cases, today_recoveries, today_deaths)))
       @@ (ACTIVE_CONFIRMED_CASES_SERIES :> Appended(ACTIVE_CONFIRMED_CASES_SERIES,
               NewActive(today_confirmed_cases, today_confirmed_recoveries,
                         today_confirmed_deaths)))
       @@ (ACTIVE_HOSPITALIZED_CASES_SERIES :>
               Appended(ACTIVE_HOSPITALIZED_CASES_SERIES, today_hospitalizations))
       @@ (ACTIVE_ICU_CASES_SERIES :> Appended(ACTIVE_ICU_CASES_SERIES, today_ICU))
       @@ (CUMULATIVE_RECOVERIES_SERIES :>
               Appended(CUMULATIVE_RECOVERIES_SERIES, today_recoveries))
       @@ (CUMULATIVE_CONFIRMED_RECOVERIES_SERIES :>
               Appended(CUMULATIVE_CONFIRMED_RECOVERIES_SERIES, today_confirmed_recoveries))
       @@ (CUMULATIVE_DEATHS_SERIES :> Appended(CUMULATIVE_DEATHS_SERIES, today_deaths))
       @@ (CUMULATIVE_CONFIRMED_DEATHS_SERIES :>
               Appended(CUMULATIVE_CONFIRMED_DEATHS_SERIES, today_confirmed_deaths))
       @@ (NEW_CASES_SERIES :> Appended(NEW_CASES_SERIES, today_cases))
       @@ (NEW_CONFIRMED_CASES_SERIES :>
               Appended(NEW_CONFIRMED_CASES_SERIES, today_confirmed_cases))
       @@ (NEW_ACTIVE_CASES_SERIES :> Appended(NEW_ACTIVE_CASES_SERIES,
               NewActive(today_cases, today_recoveries, today_deaths)))
       @@ (NEW_CONFIRMED_ACTIVE_CASES_SERIES :>
               Appended(NEW_CONFIRMED_ACTIVE_CASES_SERIES,
                   NewActive(today_confirmed_cases, today_confirmed_recoveries,
                             100 * today_deaths)))
       @@ (NEW_RECOVERIES_SERIES :> Appended(NEW_RECOVERIES_SERIES, today_recoveries))
       @@ (NEW_DEATHS_SERIES :> Appended(NEW_DEATHS_SERIES, today_deaths))
    /\ day' = day + 1
    /\ pc' = "day"
    /\ UNCHANGED <<prog, people, today_population, it, today_cases, today_recoveries,
                   today_deaths, maxima, transitions, evaluations, phased>>

\* The confirmed counters after a hook changed the true ones.
StoreConfirmed(ss) ==
    /\ today_confirmed_cases' = Confirmed(params.testing_probability, ss.today_cases)
    /\ today_confirmed_recoveries' =
           Confirmed(params.testing_probability, ss.today_recoveries)
    /\ today_confirmed_deaths' = Confirmed(params.testing_probability, ss.today_deaths)

\* One step of `for person in reversed(ss[PEOPLE])`:
\* ss[DAILY_HEALTH_EVALUATION](ss, person).
V2HealthStep ==
    /\ prog = "simulate_v2"
    /\ pc = "health"
    /\ 0 <= it /\ it < Len(people)
    /\ \E d \in random :
           LET ss == evaluate_health_for_day(SimState, it + 1, d)
           IN  Store(ss) /\ StoreConfirmed(ss)
    /\ evaluations' = Evaluation(people[it + 1])
    /\ it' = it - 1
    /\ UNCHANGED <<prog, pc, day, series, maxima, today_hospitalizations, today_ICU,
                   params, phases, hooks>>

\* The reversed iterator is exhausted; `for person in ss[PEOPLE]`.
V2HealthDone ==
    /\ prog = "simulate_v2"
    /\ pc = "health"
    /\ ~(0 <= it /\ it < Len(people))
    /\ it' = 0
    /\ pc' = "contacts"
    /\ UNCHANGED <<prog, day, people, today_population, today_cases, today_recoveries,
                   today_deaths, series, maxima, transitions, evaluations, phased>>

\* One step of `for person in ss[PEOPLE]`:
\* ss[DAILY_EVALUATE_CONTACTS](ss, person, ss[PEOPLE]).
V2ContactStep ==
    /\ prog = "simulate_v2"
    /\ pc = "contacts"
    /\ it < Len(people)
    /\ IF TracesContacts(people, it + 1) /\ ContactCount(params.daily_contacts) > 0
          /\ randint(0, today_population - 1) = {}
       THEN \* random.randint(0, -1) raises ValueError
            /\ pc' = "raised"
            /\ UNCHANGED <<people, today_cases, today_recoveries, today_deaths,
                           today_population, it, transitions, today_confirmed_cases,
                           today_confirmed_recoveries, today_confirmed_deaths>>
       ELSE \E draws \in AdvanceContactDraws(params.daily_contacts, today_population) :
               LET r == evaluate_contacts(SimState, it + 1,
                                          params.transmission_probability, draws)
               IN  /\ Store(r)
                   /\ StoreConfirmed(r)
                   /\ pc' = IF r.raised THEN "raised" ELSE pc
                   /\ it' = IF r.raised THEN it ELSE it + 1
    /\ UNCHANGED <<prog, day, series, maxima, evaluations, today_hospitalizations,
                   today_ICU, params, phases, hooks>>

\* The end of a daily step of run_simulation: the event evaluation, where
\* one is configured, then the daily appends and the maxima.
V2Append ==
    /\ prog = "simulate_v2"
    /\ pc = "contacts"
    /\ it >= Len(people)
    /\ LET active == Accumulated(ACTIVE_CASES_SERIES,
                         NewActive(today_cases, today_recoveries, today_deaths))
           active_confirmed == Accumulated(ACTIVE_CONFIRMED_CASES_SERIES,
                         NewActive(today_confirmed_cases, today_confirmed_recoveries,
                                   today_confirmed_deaths))
           hospitalized == Accumulated(ACTIVE_HOSPITALIZED_CASES_SERIES,
                         today_hospitalizations)
           icu == Accumulated(ACTIVE_ICU_CASES_SERIES, today_ICU)
           new == Appended(NEW_CASES_SERIES, today_cases)
           new_confirmed == Appended(NEW_CONFIRMED_CASES_SERIES, today_confirmed_cases)
       IN  /\ series' =
                 (CUMULATIVE_CASES_SERIES :>
                      Accumulated(CUMULATIVE_CASES_SERIES, today_cases))
              @@ (CUMULATIVE_CONFIRMED_CASES_SERIES :>
                      Accumulated(CUMULATIVE_CONFIRMED_CASES_SERIES, today_confirmed_cases))
              @@ (ACTIVE_CASES_SERIES :> active)
              @@ (ACTIVE_CONFIRMED_CASES_SERIES :> active_confirmed)
              @@ (ACTIVE_HOSPITALIZED_CASES_SERIES :> hospitalized)
              @@ (ACTIVE_ICU_CASES_SERIES :> icu)
              @@ (CUMULATIVE_RECOVERIES_SERIES :>
                      Accumulated(CUMULATIVE_RECOVERIES_SERIES, today_recoveries))
              @@ (CUMULATIVE_CONFIRMED_RECOVERIES_SERIES :>
                      Accumulated(CUMULATIVE_CONFIRMED_RECOVERIES_SERIES,
                                  today_confirmed_recoveries))
              @@ (CUMULATIVE_DEATHS_SERIES :>
                      Accumulated(CUMULATIVE_DEATHS_SERIES, today_deaths))
              @@ (CUMULATIVE_CONFIRMED_DEATHS_SERIES :>
                      Accumulated(CUMULATIVE_CONFIRMED_DEATHS_SERIES,
                                  today_confirmed_deaths))
              @@ (NEW_CASES_SERIES :> new)
              @@ (NEW_CONFIRMED_CASES_SERIES :> new_confirmed)
              @@ (NEW_ACTIVE_CASES_SERIES :> Appended(NEW_ACTIVE_CASES_SERIES,
                      NewActive(today_cases, today_recoveries, today_deaths)))
              @@ (NEW_CONFIRMED_ACTIVE_CASES_SERIES :>
                      Appended(NEW_CONFIRMED_ACTIVE_CASES_SERIES,
                          NewActive(today_confirmed_cases, today_confirmed_recoveries,
                                    100 * today_deaths)))
              @@ (NEW_RECOVERIES_SERIES :> Appended(NEW_RECOVERIES_SERIES, today_recoveries))
              @@ (NEW_DEATHS_SERIES :> Appended(NEW_DEATHS_SERIES, today_deaths))
           /\ maxima' =
                 [max_active_cases_day |->
                      MaxDay(active, maxima.max_active_cases_day, day + 1),
                  max_active_confirmed_cases_day |->
                      MaxDay(active_confirmed, maxima.max_active_confirmed_cases_day,
                             day + 1),
                  max_active_hospitalizations_day |->
                      MaxDay(hospitalized, maxima.max_active_hospitalizations_day,
                             day + 1),
                  max_active_ICU_day |->
                      MaxDay(icu, maxima.max_active_ICU_day, day + 1),
                  max_new_daily_cases_day |->
                      MaxDay(new, maxima.max_new_daily_cases_day, day + 1),
                  max_new_daily_confirmed_cases_day |->
                      MaxDay(new_confirmed, maxima.max_new_daily_confirmed_cases_day,
                             day + 1)]
    /\ params' =
          IF hooks.daily_event_evaluation # "None"
          THEN \* if ss[DAILY_EVENT_EVALUATION] is not None: called after the passes
               daily_event_evaluation(params, phases.list[phases.current].daily_contacts,
                                      hooks.events, day)
          ELSE params
    /\ day' = day + 1
    /\ pc' = "day"
    /\ UNCHANGED <<prog, people, today_population, it, today_cases, today_recoveries,
                   today_deaths, transitions, evaluations, today_confirmed_cases,
                   today_confirmed_recoveries, today_confirmed_deaths,
                   today_hospitalizations, today_ICU, phases, hooks>>

\* range(-1, SIMULATION_DAYS) is exhausted: run_simulation returns.
V2Finish ==
    /\ prog = "simulate_v2"
    /\ pc = "day"
    /\ day >= SIMULATION_DAYS
    /\ pc' = "done"
    /\ UNCHANGED <<prog, day, people, today_population, it, today_cases,
                   today_recoveries, today_deaths, series, maxima, transitions, evaluations, phased>>

V2Next ==
    \/ V2CreatePopulation
    \/ V2DayBegin
    \/ V2Seed
    \/ V2SeedAppend
    \/ V2HealthStep
    \/ V2HealthDone
    \/ V2ContactStep
    \/ V2Append
    \/ V2Finish

Init ==
    Ex2Init \/ Ex3dInit \/ V2Init

Next ==
    Ex2Next \/ Ex3dNext \/ V2Next

Spec ==
    Init /\ [][Next]_vars


\* The run under its scheduling: one thread that executes the next step
\* as long as there is one.
FairSpec ==
    Init /\ [][Next]_vars /\ WF_vars(Next)

(***************************************************************************)
(* One contact pass of a larger population: the contact pass of day 0 of   *)
(* exercise_2 and exercise_3d, entered with the seeded individuals         *)
(* contagious and everybody aged by the health pass of the day.            *)
(***************************************************************************)
\* The lists of people at the start of the contact pass of day 0: every
\* individual is well or was seeded, and has been aged to its second day.
SeededPopulations ==
    {list \in [1..MaxContactPopulation ->
                  [id : 0..(MaxContactPopulation - 1), state : {"well", "contagious"},
                   days : {2}]] :
        /\ \A k \in 1..MaxContactPopulation : list[k].id = k - 1
        /\ \E k \in 1..MaxContactPopulation : list[k].state = "contagious"}

\* The number of seeded individuals of a list.
SeededCount(list) ==
    Cardinality({k \in 1..Len(list) : list[k].state = "contagious"})

ContactInit ==
    /\ pc = "contacts"
    /\ day = 0
    /\ it = 0
    /\ people \in SeededPopulations
    /\ today_population = Len(people)
    /\ today_cases = 0
    /\ today_recoveries = 0
    /\ today_deaths = 0
    /\ today_confirmed_cases = 0
    /\ today_confirmed_recoveries = 0
    /\ today_confirmed_deaths = 0
    /\ today_hospitalizations = 0
    /\ today_ICU = 0
    /\ hooks = CallableHooks
    /\ transitions = [id \in 0..(MaxContactPopulation - 1) |-> 0]
    /\ evaluations = [id \in 0..(MaxContactPopulation - 1) |-> 1]
    /\ \/ /\ prog = "exercise_2"
          /\ params \in Ex2Configurations
          /\ phases = NoPhases
          /\ series = [cumulative_cases       |-> <<SeededCount(people)>>,
                       active_cases           |-> <<SeededCount(people)>>,
                       cumulative_recoveries  |-> <<0>>,
                       cumulative_deaths      |-> <<0>>,
                       daily_new_cases        |-> <<0>>,
                       daily_new_active_cases |-> <<0>>,
                       daily_new_recoveries   |-> <<0>>,
                       daily_new_deaths       |-> <<0>>]
          /\ maxima = [maximum_active_cases |-> 0, maximum_active_cases_day |-> 0,
                       maximum_daily_new_cases |-> 0, maximum_new_cases_day |-> 0,
                       maximum_new_cases_cumulative |-> 0]
       \/ /\ prog = "exercise_3d"
          /\ params \in InitialPhases
          /\ phases = set_initial_phase(params, NoLaterPhase)
          /\ series = [n \in Ex3dSeriesNames |->
                          IF n \in {CUMULATIVE_CASES_SERIES, ACTIVE_CASES_SERIES}
                          THEN <<SeededCount(people)>> ELSE <<0>>]
          /\ maxima = [max_new_daily_cases_day |-> 0,
                       max_new_daily_confirmed_cases_day |-> 0,
                       max_active_cases_day |-> 0, max_active_confirmed_cases_day |-> 0]

ContactNext ==
    Ex2ContactStep \/ Ex3dContactStep

\* The contact pass of day 0, from each of its possible beginnings.
ContactSpec ==
    ContactInit /\ [][ContactNext]_vars

(***************************************************************************)
(* The series of a run, whichever program keeps them                       *)
(***************************************************************************)
CumulativeCases ==
    IF prog = "exercise_2" THEN series.cumulative_cases
    ELSE series[CUMULATIVE_CASES_SERIES]

CumulativeRecoveries ==
    IF prog = "exercise_2" THEN series.cumulative_recoveries
    ELSE series[CUMULATIVE_RECOVERIES_SERIES]

CumulativeDeaths ==
    IF prog = "exercise_2" THEN series.cumulative_deaths
    ELSE series[CUMULATIVE_DEATHS_SERIES]

ActiveCases ==
    IF prog = "exercise_2" THEN series.active_cases
    ELSE series[ACTIVE_CASES_SERIES]

DailyNewCases ==
    IF prog = "exercise_2" THEN series.daily_new_cases ELSE series[NEW_CASES_SERIES]

DailyNewRecoveries ==
    IF prog = "exercise_2" THEN series.daily_new_recoveries
    ELSE series[NEW_RECOVERIES_SERIES]

DailyNewDeaths ==
    IF prog = "exercise_2" THEN series.daily_new_deaths ELSE series[NEW_DEATHS_SERIES]

\* The number of entries of the series: day 0 and the completed days.
Entries ==
    Len(CumulativeCases)

\* A daily step has completed and its entry is in the series.
DayCompleted ==
    pc \in {"day", "done"} /\ Entries >= 2

\* A condition test_condition cannot read: it lacks its kind, or the field
\* its kind compares with.
Malformed(condition) ==
    \/ "type" \notin DOMAIN condition
    \/ /\ condition.type \in {"cumulative cases exceeds", "daily new confirmed above",
                              "daily new confirmed below",
                              "cumulative confirmed cases exceeds"}
       /\ "count" \notin DOMAIN condition
    \/ /\ condition.type \in {"days after max active", "days after confirmed max active",
                              "days in phase"}
       /\ "days" \notin DOMAIN condition
    \/ /\ condition.type = "day in simulation"
       /\ "day" \notin DOMAIN condition

\* The kinds of condition test_condition recognizes.
RecognizedKinds ==
    {"cumulative cases exceeds", "daily new confirmed above", "daily new confirmed below",
     "cumulative confirmed cases exceeds", "days after max active",
     "days after confirmed max active", "days in phase", "day in simulation"}

\* The run was given callables for its hooks and conditions that can be read.
ConfigurationAccepted ==
    /\ hooks.daily_update_state = "callable"
    /\ \A n \in 2..Len(phases.list) : ~Malformed(phases.list[n].condition)

\* The health-state changes of the state machine.
LegalChanges ==
    {<<"well", "infected">>, <<"infected", "contagious">>,
     <<"contagious", "recovering">>, <<"recovering", "immune">>}

(***************************************************************************)
(* C1: after every completed day d, active_cases[d] = cumulative_cases[d]  *)
(* - cumulative_recoveries[d] - cumulative_deaths[d], in exercise_2 and in *)
(* run_simulation.                                                         *)
(***************************************************************************)
C1_ActiveIsCasesLessRecoveriesAndDeaths ==
    prog \in {"exercise_2", "simulate_v2"} =>
        \A d \in 1..Entries :
            ActiveCases[d] = CumulativeCases[d] - CumulativeRecoveries[d]
                                 - CumulativeDeaths[d]

\* run_simulation completed days with a death, a recovery and a new case.
C1_Witness ==
    /\ prog = "simulate_v2"
    /\ DayCompleted
    /\ CumulativeDeaths[Entries] > 0
    /\ CumulativeRecoveries[Entries] > 0
    /\ CumulativeCases[Entries] > CumulativeCases[1]

(***************************************************************************)
(* C2: for every day d >= 1 every cumulative series has series[d] =        *)
(* series[d-1] + the day's counter, and the daily series hold the day's    *)
(* raw counters.                                                           *)
(***************************************************************************)
C2_DailyAppend ==
    (pc = "contacts" /\ pc' = "day") =>
        /\ CumulativeCases' = Append(CumulativeCases, CumulativeCases[Entries] + today_cases)
        /\ CumulativeRecoveries' =
               Append(CumulativeRecoveries, CumulativeRecoveries[Entries] + today_recoveries)
        /\ CumulativeDeaths' =
               Append(CumulativeDeaths, CumulativeDeaths[Entries] + today_deaths)
        /\ DailyNewCases' = Append(DailyNewCases, today_cases)
        /\ DailyNewRecoveries' = Append(DailyNewRecoveries, today_recoveries)
        /\ DailyNewDeaths' = Append(DailyNewDeaths, today_deaths)
        /\ prog = "simulate_v2" =>
               /\ series'[CUMULATIVE_CONFIRMED_CASES_SERIES] =
                      Append(series[CUMULATIVE_CONFIRMED_CASES_SERIES],
                             series[CUMULATIVE_CONFIRMED_CASES_SERIES][Entries]
                                 + today_confirmed_cases)
               /\ series'[CUMULATIVE_CONFIRMED_RECOVERIES_SERIES] =
                      Append(series[CUMULATIVE_CONFIRMED_RECOVERIES_SERIES],
                             series[CUMULATIVE_CONFIRMED_RECOVERIES_SERIES][Entries]
                                 + today_confirmed_recoveries)
               /\ series'[CUMULATIVE_CONFIRMED_DEATHS_SERIES] =
                      Append(series[CUMULATIVE_CONFIRMED_DEATHS_SERIES],
                             series[CUMULATIVE_CONFIRMED_DEATHS_SERIES][Entries]
                                 + today_confirmed_deaths)
               /\ series'[NEW_CONFIRMED_CASES_SERIES] =
                      Append(series[NEW_CONFIRMED_CASES_SERIES], today_confirmed_cases)

C2_Recurrence ==
    \A d \in 2..Entries :
        /\ CumulativeCases[d] = CumulativeCases[d - 1] + DailyNewCases[d]
        /\ CumulativeRecoveries[d] = CumulativeRecoveries[d - 1] + DailyNewRecoveries[d]
        /\ CumulativeDeaths[d] = CumulativeDeaths[d - 1] + DailyNewDeaths[d]

C2_CumulativeSeriesRecurrence ==
    [][C2_DailyAppend]_vars /\ []C2_Recurrence

\* run_simulation completed a day that had a new case and a confirmed case,
\* and later a day that had a death.
C2_Witness ==
    /\ prog = "simulate_v2"
    /\ DayCompleted
    /\ \E d \in 2..Entries :
           DailyNewCases[d] > 0 /\ series[NEW_CONFIRMED_CASES_SERIES][d] > 0
    /\ DailyNewDeaths[Entries] > 0

(***************************************************************************)
(* C3: at the end of every day d the length of the people list and the     *)
(* current-population counter equal initial_population -                   *)
(* cumulative_deaths[d].                                                   *)
(***************************************************************************)
C3_PopulationAccounting ==
    (pc \in {"day", "done"} /\ Entries >= 1) =>
        /\ Len(people) = POPULATION - CumulativeDeaths[Entries]
        /\ today_population = POPULATION - CumulativeDeaths[Entries]

\* exercise_3d completed a day on which an individual died.
C3_Witness ==
    /\ prog = "exercise_3d"
    /\ DayCompleted
    /\ DailyNewDeaths[Entries] > 0

(***************************************************************************)
(* C4: during the daily steps every change of an individual's health state *)
(* is well->infected, infected->contagious, contagious->recovering,        *)
(* recovering->immune, or death from contagious.                           *)
(***************************************************************************)
C4_Step ==
    pc \in {"health", "contacts"} =>
        \A id \in Ids(people) :
            IF id \in Ids(people')
            THEN \/ PersonOf(people', id).state = PersonOf(people, id).state
                 \/ <<PersonOf(people, id).state, PersonOf(people', id).state>>
                        \in LegalChanges
            ELSE PersonOf(people, id).state = "contagious"

C4_LegalTransitions ==
    [][C4_Step]_vars

\* An individual infected by a contact walked the chain to its death, and
\* another one walked it to immune.
C4_Witness ==
    /\ DayCompleted
    /\ Len(people) < POPULATION
    /\ CumulativeCases[Entries] > CumulativeCases[1]
    /\ \E k \in 1..Len(people) : people[k].state = "immune"

(***************************************************************************)
(* C5: an individual dies only at the expiry of the contagious state; the  *)
(* dead leave the people list, which is all the health pass evaluates and  *)
(* the contact pass samples, and never come back.                          *)
(***************************************************************************)
C5_Step ==
    pc # "create" =>
        /\ Ids(people') \subseteq Ids(people)
        /\ \A id \in Ids(people) \ Ids(people') :
               /\ pc = "health"
               /\ PersonOf(people, id).state = "contagious"
               /\ PersonOf(people, id).days + 1 > HEALTH_STATES.contagious.days_at_state
        /\ Cardinality(Ids(people) \ Ids(people')) = today_deaths' - today_deaths
               \/ pc = "day"

C5_DeadIsTerminal ==
    [][C5_Step]_vars /\ [](Cardinality(Ids(people)) = Len(people))

\* After a death the passes went on over the remaining individuals.
C5_Witness ==
    /\ pc = "contacts"
    /\ it > 0
    /\ Len(people) < POPULATION
    /\ Len(people) > 0

(***************************************************************************)
(* C6: within one simulated day every individual undergoes at most one     *)
(* health-state transition.                                                *)
(***************************************************************************)
C6_OneTransitionPerDay ==
    \A id \in DOMAIN transitions : transitions[id] <= 1

\* A day on which the health pass moved an individual that the contact pass
\* has evaluated too.
C6_Witness ==
    /\ pc = "contacts"
    /\ it >= Len(people)
    /\ \E k \in 1..Len(people) :
           people[k].state = "contagious" /\ transitions[people[k].id] = 1

(***************************************************************************)
(* C7: after each completed day all tracked series have the same length,   *)
(* one entry for day 0 and one per simulated day, and simulation_days + 1  *)
(* when the run completes.                                                 *)
(***************************************************************************)
C7_SeriesLengths ==
    /\ pc \in {"day", "health", "contacts"} =>
           \A n \in DOMAIN series : Len(series[n]) = day + 1
    /\ pc = "done" =>
           \A n \in DOMAIN series : Len(series[n]) = SIMULATION_DAYS + 1

\* The run completed.
C7_Witness ==
    /\ prog = "simulate_v2"
    /\ pc = "done"
    /\ Len(people) < POPULATION

C9_CumulativeMonotone ==
    \A d \in 2..Entries :
        /\ CumulativeCases[d] >= CumulativeCases[d - 1]
        /\ CumulativeRecoveries[d] >= CumulativeRecoveries[d - 1]
        /\ CumulativeDeaths[d] >= CumulativeDeaths[d - 1]

\* Each of the three series grew on some day.
C9_Witness ==
    /\ prog = "exercise_2"
    /\ DayCompleted
    /\ CumulativeCases[Entries] > CumulativeCases[1]
    /\ CumulativeRecoveries[Entries] > 0
    /\ CumulativeDeaths[Entries] > 0

(***************************************************************************)
(* C10: the number of living individuals never increases (deaths only, no  *)
(* births or re-insertions).                                               *)
(***************************************************************************)
C10_Step ==
    pc \notin {"create", "seed"} =>
        /\ Len(people') <= Len(people)
        /\ today_population' <= today_population

C10_PopulationNonIncreasing ==
    [][C10_Step]_vars

\* Two individuals died on different days.
C10_Witness ==
    /\ DayCompleted
    /\ Len(people) <= POPULATION - 2
    /\ \E d \in 2..Entries : CumulativeDeaths[d] = 1

(***************************************************************************)
(* C11: with a transmission probability of 0 for the whole run nobody is   *)
(* infected after seeding: cumulative_cases[d] = initial_infection on      *)
(* every day d (exercise_2, exercise_3d).                                  *)
(***************************************************************************)
C11_NoTransmissionNoCases ==
    (prog \in {"exercise_2", "exercise_3d"} /\ params.transmission_probability = 0) =>
        /\ \A d \in 1..Entries : CumulativeCases[d] = INITIAL_INFECTION
        /\ \A k \in 1..Len(people) : people[k].state # "infected"
        /\ pc \in {"health", "contacts"} => today_cases = 0

\* A day's contacts were traced with probability 0 while a well individual
\* lived next to a contagious one.
C11_Witness ==
    /\ prog = "exercise_3d"
    /\ params.transmission_probability = 0
    /\ DayCompleted
    /\ \E k \in 1..Len(people) : people[k].state = "well"
    /\ \E k \in 1..Len(people) : people[k].state = "contagious"

(***************************************************************************)
(* C12: with a death probability of 1.0 in the contagious state every      *)
(* individual whose contagious period expires dies, nobody enters          *)
(* recovering or immune, and cumulative_recoveries stays 0 to the final    *)
(* day.                                                                    *)
(***************************************************************************)
C12_CertainDeath ==
    params.death_rate = 100 =>
        /\ \A k \in 1..Len(people) :
               /\ people[k].state \notin {"recovering", "immune"}
               /\ (people[k].state = "contagious" /\ pc \in {"contacts", "day", "done"})
                      => people[k].days <= CONTAGIOUS_DAYS
        /\ \A d \in 1..Entries : CumulativeRecoveries[d] = 0
        /\ today_recoveries = 0

\* The run ended after a contagious period expired.
C12_Witness ==
    /\ prog = "exercise_3d"
    /\ params.death_rate = 100
    /\ pc = "done"
    /\ CumulativeDeaths[Entries] > 0
    /\ CumulativeRecoveries[Entries] = 0

(***************************************************************************)
(* C13: on every day d cumulative_cases[d] is at least the initial         *)
(* infection count and at most the initial population size.                *)
(***************************************************************************)
C13_CasesWithinPopulation ==
    prog = "exercise_2" =>
        \A d \in 1..Entries :
            /\ CumulativeCases[d] >= INITIAL_INFECTION
            /\ CumulativeCases[d] <= POPULATION

(***************************************************************************)
(* C15: phase activation is strictly forward: exactly one phase is         *)
(* current, on a day at most the next phase that is not yet active is      *)
(* activated, no phase is activated again, and the recorded start days     *)
(* strictly increase in phase order.                                       *)
(***************************************************************************)
C15_Step ==
    phases' # phases =>
        /\ phases'.list = phases.list
        /\ \/ /\ phases'.current = phases.current
              /\ phases'.start_days = phases.start_days
           \/ /\ phases'.current = phases.current + 1
              /\ pc = "day"
              /\ Len(phases'.start_days) = Len(phases.start_days) + 1
              /\ SubSeq(phases'.start_days, 1, Len(phases.start_days)) = phases.start_days

C15_OneCurrentPhase ==
    prog # "exercise_2" =>
        /\ phases.current \in 1..Len(phases.list)
        /\ Len(phases.start_days) = phases.current
        /\ \A i, j \in 1..Len(phases.start_days) :
               i < j => phases.start_days[i] < phases.start_days[j]

C15_PhasesForward ==
    [][C15_Step]_vars /\ []C15_OneCurrentPhase

\* A run activated two phases after the initial one and completed.
C15_Witness ==
    /\ prog = "simulate_v2"
    /\ pc = "done"
    /\ phases.current = 3
    /\ Len(phases.start_days) = 3

(***************************************************************************)
(* C16: when every individual has died the run aborts with a fatal signal  *)
(* instead of stepping further days.                                       *)
(***************************************************************************)
C16_Exhausted ==
    /\ pc = "day"
    /\ Entries >= 1
    /\ day < SIMULATION_DAYS
    /\ Len(people) = 0

C16_Step ==
    C16_Exhausted => pc' = "raised"

C16_AbortsWhenExhausted ==
    [][C16_Step]_vars

\* C16 as the code has it: with nobody left no contact is drawn (the passes
\* run over the list of the living), nothing is raised, and the run steps
\* every remaining day, appending zero cases, recoveries and deaths.
C16_StepsOn ==
    C16_Exhausted => (pc' = "health" /\ people' = people)

C16_NothingRaised ==
    Len(people) = 0 =>
        /\ pc # "raised"
        /\ today_population = 0
        /\ pc \in {"day", "done"} =>
               /\ Entries = day + 1
               /\ DailyNewCases[Entries] = 0
               /\ DailyNewRecoveries[Entries] = 0

C16_RunsOnWhenExhausted ==
    /\ [][C16_StepsOn]_vars
    /\ []C16_NothingRaised
    /\ C16_Exhausted ~> (pc = "done" /\ day = SIMULATION_DAYS /\ Len(people) = 0)

\* A run completed some days after its last individual died.
C16_Witness ==
    /\ pc = "done"
    /\ Len(people) = 0
    /\ DailyNewDeaths[Entries] = 0
    /\ DailyNewDeaths[Entries - 1] = 0
    /\ CumulativeDeaths[Entries] > 0

(***************************************************************************)
(* C17: a phase condition of an unrecognized kind is not fatal:            *)
(* test_condition evaluates it to false on every day, the state is left as *)
(* it was, the guarded phase never activates and the run continues to its  *)
(* completion.                                                             *)
(***************************************************************************)
C17_Unrecognized ==
    /\ prog = "simulate_v2"
    /\ hooks.daily_update_state = "callable"
    /\ Len(phases.list) = 2
    /\ ~Malformed(phases.list[2].condition)
    /\ phases.list[2].condition.type \notin RecognizedKinds

C17_NeverActivates ==
    C17_Unrecognized =>
        /\ phases.current = 1
        /\ phases.start_days = <<0>>
        /\ params.daily_contacts = phases.list[1].daily_contacts
        /\ params.transmission_probability = phases.list[1].transmission_probability
        /\ params.testing_probability = phases.list[1].testing_probability
        /\ pc # "raised"
        /\ \A d \in 0..(Entries - 1) :
               LET t == test_condition(
                            [series |-> series, maxima |-> maxima,
                             current_phase |-> [start_day |-> 0]],
                            phases.list[2].condition, d)
               IN  ~t.advance /\ ~t.raised

C17_UnrecognizedIsNotFatal ==
    /\ []C17_NeverActivates
    /\ (C17_Unrecognized /\ pc = "day" /\ day = 0)
           ~> (pc = "done" /\ day = SIMULATION_DAYS)

\* The run completed with the unrecognized condition tested on every day.
C17_Witness ==
    /\ C17_Unrecognized
    /\ pc = "done"
    /\ phases.reported = SIMULATION_DAYS

(***************************************************************************)
(* C18: an unrecognized phase condition is reported exactly once over the  *)
(* whole run, however many days the condition is evaluated.                *)
(***************************************************************************)
C18_ReportedOnce ==
    phases.reported <= 1

(***************************************************************************)
(* C19: a malformed phase condition (no kind, or a recognized kind without *)
(* its threshold or day) is not fatal: it is taken as false and the run    *)
(* continues.                                                              *)
(***************************************************************************)
C19_MalformedIsNotFatal ==
    (/\ hooks.daily_update_state = "callable"
     /\ \E n \in 2..Len(phases.list) : Malformed(phases.list[n].condition))
        => pc # "raised"

(***************************************************************************)
(* C20: the update hook is optional: when none is configured               *)
(* run_simulation skips the call and still executes every daily step.      *)
(***************************************************************************)
C20_NoHook ==
    prog = "simulate_v2" /\ hooks.daily_update_state = "None"

C20_HookIsOptional ==
    C20_NoHook => pc # "raised"

\* C20 as the code has it: the update hook is called on every simulated day
\* without a test for None, so a run without a hook seeds its population and
\* raises at the call of day 0, before any daily pass.
C20_Step ==
    (C20_NoHook /\ pc = "day" /\ day = 0)
        => (pc' = "raised" /\ people' = people /\ series' = series)

C20_NoDailyStep ==
    C20_NoHook =>
        /\ day <= 0
        /\ Entries <= 1
        /\ pc \notin {"health", "contacts", "done"}

C20_HookIsCalledUnguarded ==
    [][C20_Step]_vars /\ []C20_NoDailyStep

\* The run without a hook has raised at the call of day 0.
C20_Witness ==
    /\ C20_NoHook
    /\ pc = "raised"
    /\ day = 0
    /\ Entries = 1


\* The individuals of the list that are contagious.
ContagiousIndividuals ==
    {k \in 1..Len(people) : people[k].state = "contagious"}

\* The seeding has ended and no daily step has begun.
Seeded ==
    pc = "day" /\ day = 0 /\ Entries = 1

(***************************************************************************)
(* C21: after the seeding step the number of contagious individuals equals *)
(* the configured initial-infection count, and cumulative_cases[0] equals  *)
(* that number, whichever individuals the random selections hit.           *)
(***************************************************************************)
C21_SeedingReachesCount ==
    (Seeded /\ prog \in {"exercise_2", "simulate_v2"}) =>
        /\ Cardinality(ContagiousIndividuals) = INITIAL_INFECTION
        /\ CumulativeCases[1] = INITIAL_INFECTION

(***************************************************************************)
(* C22: the seeding loop of run_simulation ends once the configured        *)
(* initial-infection count is reached: no selection is made after the      *)
(* day's true cases have reached the count, for every testing probability. *)
(***************************************************************************)
C22_SeedingStopsAtCount ==
    (prog = "simulate_v2" /\ day = -1) => today_cases <= INITIAL_INFECTION


(***************************************************************************)
(* C23: in the daily health pass, which walks the list of people in        *)
(* reverse while the dead are removed from it, every individual alive at   *)
(* the start of the pass is evaluated exactly once, whoever dies.          *)
(***************************************************************************)
C23_Evaluated ==
    {id \in DOMAIN evaluations : evaluations[id] = 1}

C23_EvaluatedExactlyOnce ==
    /\ \A id \in DOMAIN evaluations : evaluations[id] <= 1
    /\ pc = "health" =>
          /\ \A k \in 1..Len(people) :
                evaluations[people[k].id] = (IF k <= it + 1 THEN 0 ELSE 1)
          /\ Cardinality(C23_Evaluated) = (Len(people) - (it + 1)) + today_deaths
    /\ pc = "contacts" =>
          /\ \A k \in 1..Len(people) : evaluations[people[k].id] = 1
          /\ Cardinality(C23_Evaluated) = Len(people) + today_deaths

\* A pass in which the last individual of the list died and the first one
\* was evaluated after the removal.
C23_Witness ==
    /\ pc = "contacts"
    /\ today_deaths = 1
    /\ Len(people) = POPULATION - 1
    /\ people[1].id = 0
    /\ evaluations[0] = 1
    /\ evaluations[POPULATION - 1] = 1


(***************************************************************************)
(* C24: no individual is infected more than once in a day, whether as the  *)
(* initiator of its own sampling or as the contact of contagious           *)
(* individuals, and the day's new-case counter equals the number of        *)
(* distinct individuals that moved from well to infected that day.         *)
(***************************************************************************)
C24_InfectedToday ==
    {k \in 1..Len(people) : people[k].state = "infected" /\ people[k].days = 1}

C24_Step ==
    (pc = "contacts" /\ pc' \in {"contacts", "raised"}) =>
        /\ Len(people') = Len(people)
        /\ \A k \in 1..Len(people) :
              people'[k] # people[k] =>
                  /\ people[k].state = "well"
                  /\ people'[k] = [people[k] EXCEPT !.state = "infected", !.days = 1]
        /\ today_cases' - today_cases =
               Cardinality({k \in 1..Len(people) : people'[k] # people[k]})

C24_CasesAreTheInfected ==
    pc = "contacts" => today_cases = Cardinality(C24_InfectedToday)

C25_FromContagious(draws, probability) ==
    {n \in 1..Len(draws) :
        people[draws[n].idx + 1].state = "contagious" /\ draws[n].u < probability}

C25_ToSusceptible(draws, probability) ==
    {n \in 1..Len(draws) :
        people[draws[n].idx + 1].state = "well" /\ draws[n].u < probability}

C25_First(successes, draws) ==
    IF successes = {}
    THEN Len(draws)
    ELSE CHOOSE n \in successes : \A m \in successes : n <= m

C25_Asymmetric(state, draws, probability, sampled, cases) ==
    /\ state = "well" =>
          /\ sampled = C25_First(C25_FromContagious(draws, probability), draws)
          /\ cases = (IF C25_FromContagious(draws, probability) = {} THEN 0 ELSE 1)
    /\ state = "contagious" =>
          /\ sampled = Len(draws)
          /\ cases = Cardinality({draws[n].idx : n \in C25_ToSusceptible(draws, probability)})

C25_SamplingIsAsymmetric ==
    (pc = "contacts" /\ it < Len(people)) =>
        /\ prog = "exercise_2" =>
              \A draws \in ContactDraws(daily_contacts, today_population) :
                  LET r == Ex2Contacts(people, it + 1, draws)
                  IN  C25_Asymmetric(people[it + 1].state, draws,
                                     transmission_probability, r.sampled, r.cases)
        /\ prog = "exercise_3d" =>
              \A draws \in AdvanceContactDraws(params.daily_contacts, today_population) :
                  LET r == evaluate_contacts(SimState, it + 1,
                                             params.transmission_probability, draws)
                  IN  C25_Asymmetric(people[it + 1].state, draws,
                                     params.transmission_probability, r.sampled,
                                     r.today_cases - today_cases)

\* The first individual of the list is contagious and has infected two
\* others in its sampling of the day.
C25_Witness ==
    /\ pc = "contacts"
    /\ it = 1
    /\ people[1].state = "contagious"
    /\ today_cases = 2
    /\ Cardinality({k \in 1..Len(people) :
                       people[k].state = "infected" /\ people[k].days = 1}) = 2


(***************************************************************************)
(* C26: every contact index drawn in the contact pass is a valid index of  *)
(* the list of the living as it stands after the day's deaths were         *)
(* removed: the sampling bound equals the current length of the list, so   *)
(* no draw indexes past the end and no living individual is left out.      *)
(***************************************************************************)
C26_Drawable ==
    {r + 1 : r \in randint(0, today_population - 1)}

C26_BoundIsTheLength ==
    pc = "contacts" => C26_Drawable = DOMAIN people

C26_Step ==
    pc = "contacts" => pc' # "raised"

C26_ValidContactIndices ==
    []C26_BoundIsTheLength /\ [][C26_Step]_vars

\* On a day with a death, the survivor has traced its contacts.
C26_Witness ==
    /\ pc = "contacts"
    /\ today_deaths = 1
    /\ Len(people) = POPULATION - 1
    /\ it = Len(people)
    /\ people[1].state \in {"well", "contagious"}


(***************************************************************************)
(* C27: in each daily step the active events are evaluated and the         *)
(* effective contact count is recomputed before the contact pass of the    *)
(* day, so an event whose day range includes day d modifies the contacts   *)
(* sampled on day d itself.                                                *)
(***************************************************************************)
C27_EventsBeforeContacts ==
    (prog = "simulate_v2" /\ pc = "contacts" /\ hooks.daily_event_evaluation = "callable") =>
        params.daily_contacts =
            EffectiveContacts(phases.list[phases.current].daily_contacts, hooks.events, day)


(***************************************************************************)
(* C28: for each maximum tracked by run_simulation (new daily cases, new   *)
(* daily confirmed cases, active cases, active confirmed cases, active     *)
(* hospitalizations, active ICU), after every day the recorded day index   *)
(* is the earliest index at which the series attains its maximum so far;   *)
(* a later day with an equal value never replaces it.                      *)
(***************************************************************************)
C28_Tracked ==
    {<<NEW_CASES_SERIES, "max_new_daily_cases_day">>,
     <<NEW_CONFIRMED_CASES_SERIES, "max_new_daily_confirmed_cases_day">>,
     <<ACTIVE_CASES_SERIES, "max_active_cases_day">>,
     <<ACTIVE_CONFIRMED_CASES_SERIES, "max_active_confirmed_cases_day">>,
     <<ACTIVE_HOSPITALIZED_CASES_SERIES, "max_active_hospitalizations_day">>,
     <<ACTIVE_ICU_CASES_SERIES, "max_active_ICU_day">>}

C28_EarliestMaximum ==
    (prog = "simulate_v2" /\ Entries >= 1) =>
        \A t \in C28_Tracked :
            LET s == series[t[1]]
                m == maxima[t[2]] + 1
            IN  /\ m \in 1..Len(s)
                /\ \A i \in 1..Len(s) :
                       /\ s[i] <= s[m]
                       /\ i < m => s[i] < s[m]

\* The active cases rose to a new maximum after the seeding, and a later
\* day with the same value has not replaced the recorded day.
C28_Witness ==
    /\ prog = "simulate_v2"
    /\ DayCompleted
    /\ maxima.max_active_cases_day > 0
    /\ \E i \in 1..Entries :
           /\ i > maxima.max_active_cases_day + 1
           /\ ActiveCases[i] = ActiveCases[maxima.max_active_cases_day + 1]


(***************************************************************************)
(* C29: an individual that enters a state of finite duration D on day d    *)
(* (its days in the state set to 1 by the health pass or by an infection   *)
(* in the contact pass) stays in it through day d + D - 1 and is evaluated *)
(* for a transition in the health pass of day d + D, neither earlier nor   *)
(* later: each health pass adds one day, and the transition is taken by    *)
(* the pass that finds the days at D.                                      *)
(***************************************************************************)
C29_Duration(person) ==
    HEALTH_STATES[person.state].days_at_state

\* The health pass evaluates people[it + 1].
C29_HealthStep ==
    (pc = "health" /\ it' = it - 1) =>
        LET person == people[it + 1]
        IN  /\ \A k \in 1..Len(people) :
                   k # it + 1 => PersonOf(people', people[k].id) = people[k]
            /\ IF C29_Duration(person) > 0 /\ person.days = C29_Duration(person)
               THEN \/ person.id \notin Ids(people')
                    \/ PersonOf(people', person.id) =
                           [person EXCEPT !.state = HEALTH_STATES[person.state].next_state,
                                          !.days = 1]
               ELSE /\ person.id \in Ids(people')
                    /\ PersonOf(people', person.id) = [person EXCEPT !.days = @ + 1]

\* The contact pass leaves the days of everybody as they are, but for the
\* individuals it infects.
C29_ContactStep ==
    (pc = "contacts" /\ pc' = "contacts") =>
        \A k \in 1..Len(people) :
            people'[k] # people[k] => (people'[k].state = "infected" /\ people'[k].days = 1)

C29_WithinDuration ==
    \A k \in 1..Len(people) :
        C29_Duration(people[k]) > 0 => people[k].days \in 1..C29_Duration(people[k])

C29_TransitionOnExpiry ==
    /\ [][C29_HealthStep]_vars
    /\ [][C29_ContactStep]_vars
    /\ []C29_WithinDuration

\* An individual infected in a contact pass has become contagious in the
\* health pass two days later, and its contagious days have run out in turn.
C29_Witness ==
    /\ prog = "exercise_3d"
    /\ pc = "contacts"
    /\ day >= INFECTED_DAYS + CONTAGIOUS_DAYS + 1
    /\ \E k \in 1..Len(people) : people[k].state = "recovering" /\ people[k].days = 1
    /\ CumulativeCases[Entries] > CumulativeCases[1]


(***************************************************************************)
(* C30: each day's confirmed figures are the true counts scaled by the     *)
(* current testing probability, for cases, recoveries and deaths alike:    *)
(* the confirmed new cases of the day are the testing probability times    *)
(* its true new cases, and the day's change of the confirmed active cases  *)
(* is made of the scaled cases, the scaled recoveries and the scaled       *)
(* deaths.  Confirmed figures are in hundredths of an individual.          *)
(***************************************************************************)
C30_ConfirmedAreScaled ==
    (prog \in {"exercise_3d", "simulate_v2"} /\ pc = "day" /\ day >= 1) =>
        LET e == Entries
            tp == params.testing_probability
        IN  /\ series[NEW_CONFIRMED_CASES_SERIES][e] = tp * DailyNewCases[e]
            /\ series[NEW_CONFIRMED_ACTIVE_CASES_SERIES][e] =
                   tp * DailyNewCases[e] - tp * DailyNewRecoveries[e]
                       - tp * DailyNewDeaths[e]


(***************************************************************************)
(* C31: test_condition returns true exactly as the kind of the condition   *)
(* defines, on the series entry of the given day: cumulative cases >=      *)
(* count; daily new confirmed >= count; daily new confirmed <= count;      *)
(* cumulative confirmed cases >= count; day - day of the maximum of the    *)
(* active cases > N; day - day of the maximum of the active confirmed      *)
(* cases > N; day - start day of the current phase > N; day = target day;  *)
(* and the test leaves the simulation state as it is.                      *)
(***************************************************************************)
C31_Thresholds == 0..3

C31_Conditions ==
      [type : {"cumulative cases exceeds", "daily new confirmed above",
               "daily new confirmed below", "cumulative confirmed cases exceeds"},
       count : C31_Thresholds]
    \cup [type : {"days after max active", "days after confirmed max active",
                  "days in phase"},
          days : C31_Thresholds]
    \cup [type : {"day in simulation"}, day : C31_Thresholds]

\* What the kind of the condition defines for day d (entry d + 1 of the
\* series; confirmed figures in hundredths).
C31_Defined(condition, d) ==
    LET entry(name) == series[name][d + 1]
        start_day == phases.start_days[phases.current]
    IN  \/ /\ condition.type = "cumulative cases exceeds"
           /\ entry(CUMULATIVE_CASES_SERIES) >= condition.count
        \/ /\ condition.type = "daily new confirmed above"
           /\ entry(NEW_CONFIRMED_CASES_SERIES) >= 100 * condition.count
        \/ /\ condition.type = "daily new confirmed below"
           /\ entry(NEW_CONFIRMED_CASES_SERIES) <= 100 * condition.count
        \/ /\ condition.type = "cumulative confirmed cases exceeds"
           /\ entry(CUMULATIVE_CONFIRMED_CASES_SERIES) >= 100 * condition.count
        \/ /\ condition.type = "days after max active"
           /\ d - maxima.max_active_cases_day > condition.days
        \/ /\ condition.type = "days after confirmed max active"
           /\ d - maxima.max_active_confirmed_cases_day > condition.days
        \/ /\ condition.type = "days in phase"
           /\ d - start_day > condition.days
        \/ /\ condition.type = "day in simulation"
           /\ d = condition.day

C31_Tested ==
    /\ prog \in {"exercise_3d", "simulate_v2"}
    /\ Entries >= 1
    /\ phases.current >= 1

\* The phase controller tests the condition at the beginning of a day.
C31_ReturnsAsDefined ==
    (C31_Tested /\ pc = "day") =>
        \A d \in 0..(Entries - 1) : \A condition \in C31_Conditions :
            test_condition([series |-> series, maxima |-> maxima,
                            current_phase |->
                                [start_day |-> phases.start_days[phases.current]]],
                           condition, d)
                = Returned(C31_Defined(condition, d))

\* The step of the day that tests the condition of the next phase changes
\* neither the series nor the maxima nor the individuals, and the start
\* days of the phases only by recording the phase that becomes current.
C31_TestStep ==
    (C31_Tested /\ pc = "day" /\ pc' \in {"health", "raised"}) =>
        /\ series' = series
        /\ maxima' = maxima
        /\ people' = people
        /\ \A n \in 1..Len(phases.start_days) :
               phases'.start_days[n] = phases.start_days[n]
        /\ (phases'.current = phases.current) =>
               (phases'.start_days = phases.start_days /\ params' = params)

C31_TestCondition ==
    []C31_ReturnsAsDefined /\ [][C31_TestStep]_vars

\* Both later phases of a run have become current, the second one on a
\* condition on the days in the phase; the maximum of the active cases lies
\* after the seeding, so that the kinds on elapsed days differ.
C31_Witness ==
    /\ prog = "simulate_v2"
    /\ pc = "day"
    /\ phases.current = 3
    /\ Entries >= 4
    /\ maxima.max_active_cases_day >= 1
    /\ \E c1, c2 \in C31_Conditions :
           /\ c1.type = c2.type
           /\ C31_Defined(c1, day) /\ ~C31_Defined(c2, day)


(***************************************************************************)
(* C32: at the end of every day d, active_cases[d] is the number of living *)
(* individuals that are infected, contagious or recovering, whatever the   *)
(* draws of the run, those of the seeding included.                        *)
(***************************************************************************)
C32_ActiveIndividuals ==
    {k \in 1..Len(people) : people[k].state \in {"infected", "contagious", "recovering"}}

C32_ActiveAreTheInfected ==
    (prog = "exercise_2" /\ pc \in {"day", "done"} /\ Entries >= 1) =>
        ActiveCases[Entries] = Cardinality(C32_ActiveIndividuals)


(***************************************************************************)
(* C33: at the end of every day d, cumulative_recoveries[d] is the number  *)
(* of living individuals that are immune: a recovery is counted exactly    *)
(* when an individual lands on immune, and an immune individual never      *)
(* leaves that state on its own.                                           *)
(***************************************************************************)
C33_Immune(list) ==
    {list[k].id : k \in {n \in 1..Len(list) : list[n].state = "immune"}}

C33_RecoveriesAreTheImmune ==
    (pc \in {"day", "done"} /\ Entries >= 1) =>
        CumulativeRecoveries[Entries] = Cardinality(C33_Immune(people))

\* Within a day the recoveries counted grow by the individuals that land on
\* immune, and whoever is immune stays immune.
C33_Step ==
    /\ C33_Immune(people) \subseteq C33_Immune(people')
    /\ (pc \in {"health", "contacts"} /\ pc' \in {"health", "contacts"}) =>
           today_recoveries' - today_recoveries =
               Cardinality(C33_Immune(people') \ C33_Immune(people))

C33_RecoveryIsLandingOnImmune ==
    []C33_RecoveriesAreTheImmune /\ [][C33_Step]_vars

\* One individual has recovered and stayed immune over the day that
\* followed, while the other was infected later and is still recovering.
C33_Witness ==
    /\ pc = "day"
    /\ Entries >= 3
    /\ CumulativeRecoveries[Entries - 1] = 1
    /\ DailyNewRecoveries[Entries] = 0
    /\ Cardinality(C33_Immune(people)) = 1
    /\ Len(people) = 2


(***************************************************************************)
(* C34: in run_simulation the series of daily changes agree with the       *)
(* active series: for every day d >= 1, new_active_cases[d] =              *)
(* active_cases[d] - active_cases[d-1] and new_confirmed_active_cases[d] = *)
(* active_confirmed_cases[d] - active_confirmed_cases[d-1], whatever the   *)
(* day's deaths and confirmed deaths are.                                  *)
(***************************************************************************)
C34_DailyChangesAgree ==
    (prog = "simulate_v2" /\ pc \in {"day", "done"}) =>
        \A e \in 2..Entries :
            /\ series[NEW_ACTIVE_CASES_SERIES][e] =
                   series[ACTIVE_CASES_SERIES][e] - series[ACTIVE_CASES_SERIES][e - 1]
            /\ series[NEW_CONFIRMED_ACTIVE_CASES_SERIES][e] =
                   series[ACTIVE_CONFIRMED_CASES_SERIES][e]
                       - series[ACTIVE_CONFIRMED_CASES_SERIES][e - 1]


(***************************************************************************)
(* simulate_v2.py: write_data(ss, file_name).  The series of the report:   *)
(* every series key of _SERIALIZE_KEYS with the list sim_state holds       *)
(* under it.                                                               *)
(***************************************************************************)
write_data(ss) ==
    [key \in V2SeriesNames |-> ss[key]]

(***************************************************************************)
(* C35: in the state and in the report written by write_data, the series   *)
(* under the label 'cumulative deaths' is the running sum of the daily     *)
(* true deaths, and the series under 'cumulative confirmed deaths' is the  *)
(* running sum of the daily confirmed deaths.  The series filled with      *)
(* confirmed figures holds hundredths of an individual, the other one      *)
(* individuals.                                                            *)
(***************************************************************************)
C35_Last(list) ==
    IF Len(list) = 0 THEN 0 ELSE list[Len(list)]

\* A step of run_simulation that appends the entry of a day.
C35_Appends ==
    /\ prog = "simulate_v2"
    /\ Len(series'[NEW_DEATHS_SERIES]) = Len(series[NEW_DEATHS_SERIES]) + 1

C35_Step ==
    C35_Appends =>
        LET before == write_data(series)
            after == write_data(series')
        IN  /\ after = [key \in V2SeriesNames |-> series'[key]]
            \* 'cumulative deaths' (filled in hundredths): the true deaths
            /\ C35_Last(after["cumulative deaths"]) =
                   C35_Last(before["cumulative deaths"]) + 100 * today_deaths
            \* 'cumulative confirmed deaths' (filled in individuals): the
            \* confirmed deaths
            /\ 100 * C35_Last(after["cumulative confirmed deaths"]) =
                   100 * C35_Last(before["cumulative confirmed deaths"])
                       + today_confirmed_deaths

C35_DeathSeriesLabels ==
    [][C35_Step]_vars


(***************************************************************************)
(* C36: in exercise_2 the recorded maxima are consistent with the series   *)
(* they summarise: after every day, active_cases[maximum_active_cases_day] *)
(* = maximum_active_cases and daily_new_cases[maximum_new_cases_day] =     *)
(* maximum_daily_new_cases (the series being indexed from 0).              *)
(***************************************************************************)
C36_MaximaMatchTheSeries ==
    (prog = "exercise_2" /\ pc \in {"day", "done"} /\ Entries >= 2) =>
        /\ series.active_cases[maxima.maximum_active_cases_day + 1] =
               maxima.maximum_active_cases
        /\ series.daily_new_cases[maxima.maximum_new_cases_day + 1] =
               maxima.maximum_daily_new_cases

====
